---- MODULE Spec2Model ----
(***************************************************************************)
(* A model of carouselai's slide layout and rendering engine: the layout   *)
(* settings cascade of the three slide templates (TwitterSlide,            *)
(* StorytellerSlide, LessonSlide), their inline markup parser and their    *)
(* line-oriented block markdown resolver, their title/body splitter and    *)
(* the element tree each template composes for a slide.                    *)
(*                                                                         *)
(* Conventions                                                             *)
(*   - a string the program scans is a sequence of one-character strings;  *)
(*   - an optional value (a `?:` field or prop) is a sequence of length    *)
(*     0 (undefined) or 1 (the value);                                     *)
(*   - fractional quantities are carried in tenths: line height 1.5 is     *)
(*     15, paragraph gap 1 is 10, font scale 1.0 is 10.                    *)
(***************************************************************************)
EXTENDS Integers, Sequences, FiniteSets

VARIABLES
    style,           \* CarouselStyle of the component rendering the slide
    theme,           \* the theme prop
    slide,           \* the slide prop: its optional layout fields
    layoutSettings,  \* the optional global layoutSettings prop
    fontStyle,       \* the optional global fontStyle prop
    fontScale,       \* the optional global fontScale prop
    resolved,        \* the effective values computed by the last render pass
    line,            \* a line of text handed to parseInline
    runs,            \* what parseInline returned for it
    content,         \* a slide's markdown content handed to renderMarkdown
    blocks,          \* what renderMarkdown returned for it
    split,           \* what splitContentByHeaders returned for it
    showSlideNumbers,\* the showSlideNumbers prop
    forExport,       \* the forExport prop
    tree,            \* the element tree the component returned
    accentColor,     \* the optional accentColor prop
    colors,          \* the text colours of the last render pass
    step,            \* App: the onboarding step displayed
    aspectRatio,     \* App: the aspect ratio selected
    slides,          \* App: the slides of the carousel
    aiTopic,         \* App: the text of the topic input
    isGenerating,    \* App: a generateCarouselContent call is pending
    uploadedDocument,\* App: the processed document, or null
    isProcessingDocument, \* App: a processDocument call is pending
    documentError,   \* App: the upload error shown, or null
    alerted,         \* the message of the last alert() shown, "" for none
    last,            \* the handler or continuation that ran last
    entered,         \* how the workspace was entered last
    scrapePc,        \* scrapeInstagramPost: where the call stands
    runStatus,       \* scrapeInstagramPost: the local variable status
    attempts,        \* scrapeInstagramPost: the local variable attempts
    items,           \* scrapeInstagramPost: the dataset items fetched
    outcome,         \* scrapeInstagramPost: what the call returned or threw
    exportPhase,     \* the export of the slide: idle, waiting or captured
    imageState       \* the load state of every image the tree references

layoutVars == <<theme, slide, layoutSettings, fontStyle, fontScale, resolved>>
inlineVars == <<line, runs>>
blockVars  == <<content, blocks, split>>
composeVars == <<showSlideNumbers, forExport, tree, accentColor, colors>>
appVars ==
    <<step, aspectRatio, slides, aiTopic, isGenerating, uploadedDocument,
      isProcessingDocument, documentError, alerted, last, entered>>
scrapeVars == <<scrapePc, runStatus, attempts, items, outcome>>
exportVars == <<exportPhase, imageState>>
serviceVars == <<appVars, scrapeVars, exportVars>>
vars == <<style, layoutVars, inlineVars, blockVars, composeVars, serviceVars>>

(***************************************************************************)
(* Bounds of the model.                                                    *)
(***************************************************************************)
\* how many optional fields and props are set at the same time
MaxOverrides == 2
\* longest line typed character by character
MaxLineLen == 5
\* longest content typed character by character
MaxContentLen == 4
\* how many inputs of a composed slide differ from the plain slide at once
MaxSettings == 3

(***************************************************************************)
(* Types (types.ts).                                                       *)
(***************************************************************************)
Styles == {"TWITTER", "STORYTELLER", "LESSON"}
Themes == {"LIGHT", "DARK"}

Undefined == <<>>
Some(v) == <<v>>
IsDefined(x) == x # Undefined
Value(x) == x[1]

SlideNumberFields ==
    {"contentPadding", "textLineHeight", "paragraphGap", "imageScale",
     "imageOffsetY", "gradientHeight", "backgroundOverlayOpacity", "fontScale",
     "imageCanvasOffset", "imageMargin", "imageTextSpacing"}
SlideStringFields ==
    {"textAlignment", "backgroundOverlayColor", "fontStyle", "contentLayout"}
SlideFields == SlideNumberFields \cup SlideStringFields

LayoutNumberFields ==
    {"contentPadding", "imageCanvasOffset", "imageMargin", "textLineHeight",
     "paragraphGap"}
LayoutFields == LayoutNumberFields \cup {"textAlignment"}

\* the values a render pass is given: 0 is a number every numeric field can hold
SlideValues(f) ==
    CASE f \in SlideNumberFields -> {0, 40}
      [] f = "textAlignment" -> {"center", "right"}
      [] f = "backgroundOverlayColor" -> {"#FF0000"}
      [] f = "fontStyle" -> {"SERIF", "TECH"}
      [] f = "contentLayout" -> {"image-first", "image-after-title"}

LayoutValues(f) ==
    IF f \in LayoutNumberFields THEN {0, 80} ELSE {"center", "right"}

FontStyleValues == {"SERIF", "TECH"}
FontScaleValues == {0, 80}

(***************************************************************************)
(* JavaScript operators the cascade is written with.                       *)
(***************************************************************************)
\* a ?? b
NullishCoalesce(a, b) == IF IsDefined(a) THEN a ELSE b

\* a || b on a number: 0 is falsy
LogicalOrNumber(a, b) == IF IsDefined(a) /\ Value(a) # 0 THEN a ELSE b

\* a || b on a string: "" is falsy
LogicalOrString(a, b) == IF IsDefined(a) /\ Value(a) # "" THEN a ELSE b

\* a !== undefined ? a : b
DefinedOr(a, b) == IF a # Undefined THEN a ELSE b

\* obj?.f
OptionalChain(obj, f) == IF obj = Undefined THEN Undefined ELSE Value(obj)[f]

\* a destructured prop with a default: the default applies to undefined only
PropDefault(p, d) == IF p = Undefined THEN Some(d) ELSE p

(***************************************************************************)
(* Hard defaults.                                                          *)
(***************************************************************************)
DefaultContentPadding == 64
DefaultImageCanvasOffset == 0
DefaultImageMargin == 0
DefaultTextLineHeight == 15
DefaultParagraphGap == 10
DefaultFontScale == 10
DefaultImageOffsetY == 50
DefaultGradientHeight == 60
DefaultOverlayOpacity == 50
DefaultImageTextSpacing == 16
DefaultGradientOpacity == 100
TwitterDefaultImageScale == 50
StorytellerDefaultImageScale == 45
LessonDefaultImageScale == 50

defaultLayoutSettings ==
    [contentPadding |-> DefaultContentPadding,
     imageCanvasOffset |-> DefaultImageCanvasOffset,
     imageMargin |-> DefaultImageMargin,
     textLineHeight |-> DefaultTextLineHeight,
     paragraphGap |-> DefaultParagraphGap]

\* theme === 'DARK' ? '#000000' : '#FFFFFF'
ThemeOverlayColor(th) == IF th = "DARK" THEN "#000000" ELSE "#FFFFFF"

(***************************************************************************)
(* The effective values of one render pass, per template. Each field is    *)
(* named after the slide field it resolves and holds an optional value,    *)
(* so that a value left undefined at render time shows.                    *)
(***************************************************************************)
\* the cascade written with || instead of ??
EffectiveLayoutFalsy(s, ls, f) ==
    LogicalOrNumber(s[f],
        LogicalOrNumber(OptionalChain(ls, f), Some(defaultLayoutSettings[f])))

\* slide.f ?? layoutSettings?.f ?? defaultLayoutSettings.f
EffectiveLayout(s, ls, f) ==
    NullishCoalesce(s[f],
        NullishCoalesce(OptionalChain(ls, f), Some(defaultLayoutSettings[f])))

\* slide.textAlignment ?? layoutSettings?.textAlignment ?? 'left'
EffectiveTextAlignment(s, ls) ==
    NullishCoalesce(s.textAlignment,
        NullishCoalesce(OptionalChain(ls, "textAlignment"), Some("left")))

\* slide.fontStyle || fontStyle, fontStyle = 'MODERN' by default
EffectiveFontStyle(s, fs) ==
    LogicalOrString(s.fontStyle, PropDefault(fs, "MODERN"))

\* slide.fontScale !== undefined ? slide.fontScale : fontScale, 1.0 by default
EffectiveFontScale(s, fsc) ==
    DefinedOr(s.fontScale, PropDefault(fsc, DefaultFontScale))

TwitterImageScale(s) ==
    LogicalOrNumber(s.imageScale, Some(TwitterDefaultImageScale))

\* the cinematic template with the feed-text default
StorytellerImageScaleAsTwitter(s) ==
    LogicalOrNumber(s.imageScale, Some(TwitterDefaultImageScale))

StorytellerImageScale(s) ==
    LogicalOrNumber(s.imageScale, Some(StorytellerDefaultImageScale))

LessonImageScale(s) ==
    LogicalOrNumber(s.imageScale, Some(LessonDefaultImageScale))

TwitterSlideLayout(s, th, ls, fs, fsc) ==
    [contentPadding |-> EffectiveLayout(s, ls, "contentPadding"),
     imageCanvasOffset |-> EffectiveLayout(s, ls, "imageCanvasOffset"),
     imageMargin |-> EffectiveLayout(s, ls, "imageMargin"),
     textLineHeight |-> EffectiveLayout(s, ls, "textLineHeight"),
     paragraphGap |-> EffectiveLayout(s, ls, "paragraphGap"),
     textAlignment |-> EffectiveTextAlignment(s, ls),
     imageScale |-> TwitterImageScale(s),
     imageOffsetY |-> DefinedOr(s.imageOffsetY, Some(DefaultImageOffsetY)),
     contentLayout |-> LogicalOrString(s.contentLayout, Some("default")),
     backgroundOverlayColor |->
         LogicalOrString(s.backgroundOverlayColor, Some(ThemeOverlayColor(th))),
     backgroundOverlayOpacity |->
         DefinedOr(s.backgroundOverlayOpacity, Some(DefaultOverlayOpacity)),
     imageTextSpacing |->
         NullishCoalesce(s.imageTextSpacing, Some(DefaultImageTextSpacing)),
     fontStyle |-> EffectiveFontStyle(s, fs),
     fontScale |-> EffectiveFontScale(s, fsc)]

StorytellerSlideLayout(s, th, ls, fs, fsc) ==
    [contentPadding |-> EffectiveLayout(s, ls, "contentPadding"),
     textLineHeight |-> EffectiveLayout(s, ls, "textLineHeight"),
     paragraphGap |-> EffectiveLayout(s, ls, "paragraphGap"),
     textAlignment |-> EffectiveTextAlignment(s, ls),
     imageScale |-> StorytellerImageScale(s),
     imageOffsetY |-> DefinedOr(s.imageOffsetY, Some(DefaultImageOffsetY)),
     gradientHeight |-> DefinedOr(s.gradientHeight, Some(DefaultGradientHeight)),
     backgroundOverlayColor |->
         LogicalOrString(s.backgroundOverlayColor, Some(ThemeOverlayColor(th))),
     backgroundOverlayOpacity |->
         DefinedOr(s.backgroundOverlayOpacity, Some(DefaultOverlayOpacity)),
     fontStyle |-> EffectiveFontStyle(s, fs),
     fontScale |-> EffectiveFontScale(s, fsc)]

LessonSlideLayout(s, th, ls, fs, fsc) ==
    [contentPadding |-> EffectiveLayout(s, ls, "contentPadding"),
     textLineHeight |-> EffectiveLayout(s, ls, "textLineHeight"),
     paragraphGap |-> EffectiveLayout(s, ls, "paragraphGap"),
     textAlignment |-> EffectiveTextAlignment(s, ls),
     fontStyle |-> EffectiveFontStyle(s, fs),
     fontScale |-> EffectiveFontScale(s, fsc),
     imageScale |-> LessonImageScale(s),
     imageOffsetY |-> DefinedOr(s.imageOffsetY, Some(DefaultImageOffsetY)),
     gradientHeight |-> DefinedOr(s.gradientHeight, Some(DefaultGradientHeight)),
     imageTextSpacing |->
         NullishCoalesce(s.imageTextSpacing, Some(DefaultImageTextSpacing)),
     \* in percent: backgroundOverlayOpacity / 100, else 1
     gradientOpacity |->
         DefinedOr(s.backgroundOverlayOpacity, Some(DefaultGradientOpacity)),
     backgroundOverlayColor |->
         LogicalOrString(s.backgroundOverlayColor, Some(ThemeOverlayColor(th))),
     backgroundOverlayOpacity |->
         DefinedOr(s.backgroundOverlayOpacity, Some(DefaultOverlayOpacity))]

\* the render pass of the component the carousel style selects
RenderLayout(st, s, th, ls, fs, fsc) ==
    CASE st = "TWITTER" -> TwitterSlideLayout(s, th, ls, fs, fsc)
      [] st = "STORYTELLER" -> StorytellerSlideLayout(s, th, ls, fs, fsc)
      [] st = "LESSON" -> LessonSlideLayout(s, th, ls, fs, fsc)

(***************************************************************************)
(* The layout specification: the parent re-renders the slide component     *)
(* with one prop changed; every render pass recomputes the effective       *)
(* values from the props alone.                                            *)
(***************************************************************************)
NoSlideOverrides == [f \in SlideFields |-> Undefined]
NoLayoutSettings == [f \in LayoutFields |-> Undefined]

OverrideCount(s, ls, fs, fsc) ==
    Cardinality({f \in SlideFields : IsDefined(s[f])})
    + (IF ls = Undefined THEN 0
       ELSE Cardinality({f \in LayoutFields : IsDefined(Value(ls)[f])}))
    + (IF IsDefined(fs) THEN 1 ELSE 0)
    + (IF IsDefined(fsc) THEN 1 ELSE 0)

Rendered(st, s, th, ls, fs, fsc) ==
    /\ OverrideCount(s, ls, fs, fsc) <= MaxOverrides
    /\ style' = st
    /\ slide' = s
    /\ theme' = th
    /\ layoutSettings' = ls
    /\ fontStyle' = fs
    /\ fontScale' = fsc
    /\ resolved' = RenderLayout(st, s, th, ls, fs, fsc)
    /\ UNCHANGED <<inlineVars, blockVars, composeVars, serviceVars>>

\* a slide field is set to a value or cleared
ChangeSlide ==
    \E f \in SlideFields :
        \E v \in {Some(x) : x \in SlideValues(f)} \cup {Undefined} :
            /\ v # slide[f]
            /\ Rendered(style, [slide EXCEPT ![f] = v], theme, layoutSettings,
                        fontStyle, fontScale)

\* a field of the global layout settings is set or cleared
ChangeLayoutSettings ==
    \E f \in LayoutFields :
        \E v \in {Some(x) : x \in LayoutValues(f)} \cup {Undefined} :
            LET old == IF layoutSettings = Undefined THEN NoLayoutSettings
                       ELSE Value(layoutSettings)
            IN /\ v # old[f]
               /\ Rendered(style, slide, theme, Some([old EXCEPT ![f] = v]),
                           fontStyle, fontScale)

\* the layoutSettings prop is not passed at all
DropLayoutSettings ==
    /\ layoutSettings # Undefined
    /\ Rendered(style, slide, theme, Undefined, fontStyle, fontScale)

ChangeFontStyle ==
    \E v \in {Some(x) : x \in FontStyleValues} \cup {Undefined} :
        /\ v # fontStyle
        /\ Rendered(style, slide, theme, layoutSettings, v, fontScale)

ChangeFontScale ==
    \E v \in {Some(x) : x \in FontScaleValues} \cup {Undefined} :
        /\ v # fontScale
        /\ Rendered(style, slide, theme, layoutSettings, fontStyle, v)

ChangeTheme ==
    \E th \in Themes \ {theme} :
        Rendered(style, slide, th, layoutSettings, fontStyle, fontScale)

(***************************************************************************)
(* The state of the parts of the program a specification leaves alone: the *)
(* App component as constructed, no scrape started, no export requested,   *)
(* no text colour computed.                                                *)
(***************************************************************************)
\* null, where the program distinguishes no undefined from it
Null == <<>>

\* the images a slide's element tree can reference
ImageIds == {"avatar", "illustration", "background"}

\* the useState initial values of App
AppConstructed ==
    /\ step = "FORMAT_SELECT"
    /\ aspectRatio = "1/1"
    /\ slides = "MOCK_SLIDES"
    /\ aiTopic = <<>>
    /\ isGenerating = FALSE
    /\ uploadedDocument = Null
    /\ isProcessingDocument = FALSE
    /\ documentError = Null
    /\ alerted = ""
    /\ last = <<>>
    /\ entered = "none"

\* no call of scrapeInstagramPost made
ScrapeIdle ==
    /\ scrapePc = "idle"
    /\ runStatus = Undefined
    /\ attempts = 0
    /\ items = "none"
    /\ outcome = [kind |-> "none", message |-> "", wrapped |-> FALSE]

\* no export requested
ExportIdle ==
    /\ exportPhase = "idle"
    /\ imageState = [i \in ImageIds |-> "unreferenced"]

ServicesIdle == AppConstructed /\ ScrapeIdle /\ ExportIdle

\* no text rendered yet
NoColors ==
    [heading |-> "", body |-> "", bullet |-> "", number |-> "",
     footer |-> Undefined]

\* the carousel style selects another component for the same props
ChangeStyle ==
    \E st \in Styles \ {style} :
        Rendered(st, slide, theme, layoutSettings, fontStyle, fontScale)

InitLayout ==
    /\ style = "TWITTER"
    /\ theme = "LIGHT"
    /\ slide = NoSlideOverrides
    /\ layoutSettings = Undefined
    /\ fontStyle = Undefined
    /\ fontScale = Undefined
    /\ resolved = RenderLayout("TWITTER", NoSlideOverrides, "LIGHT", Undefined,
                               Undefined, Undefined)
    /\ line = <<>>
    /\ runs = <<>>
    /\ content = <<>>
    /\ blocks = <<>>
    /\ split = [titleLines |-> <<>>, bodyLines |-> <<>>]
    /\ showSlideNumbers = TRUE
    /\ forExport = FALSE
    /\ tree = <<>>
    /\ accentColor = Undefined
    /\ colors = NoColors
    /\ ServicesIdle

NextLayout ==
    \/ ChangeSlide
    \/ ChangeLayoutSettings
    \/ DropLayoutSettings
    \/ ChangeFontStyle
    \/ ChangeFontScale
    \/ ChangeTheme
    \/ ChangeStyle

SpecLayout == InitLayout /\ [][NextLayout]_vars

(***************************************************************************)
(* Claims about the layout settings cascade.                               *)
(***************************************************************************)
\* the global value of a layout field, as the claims speak of it
GlobalSetting(f) ==
    IF layoutSettings = Undefined THEN Undefined ELSE Value(layoutSettings)[f]

\* per-slide value if set, else the global value if set, else the hard default
Cascade(perSlide, global, hard) ==
    IF perSlide # Undefined THEN perSlide
    ELSE IF global # Undefined THEN global
    ELSE Some(hard)

\* C1: in each of the three templates the effective content padding, line
\* height, paragraph gap and text alignment are the per-slide value if the
\* slide sets it, otherwise the global layoutSettings value if that is set,
\* otherwise the hard default (64, 1.5, 1, left).
C1_LayoutCascade ==
    /\ resolved.contentPadding =
           Cascade(slide.contentPadding, GlobalSetting("contentPadding"), 64)
    /\ resolved.textLineHeight =
           Cascade(slide.textLineHeight, GlobalSetting("textLineHeight"), 15)
    /\ resolved.paragraphGap =
           Cascade(slide.paragraphGap, GlobalSetting("paragraphGap"), 10)
    /\ resolved.textAlignment =
           Cascade(slide.textAlignment, GlobalSetting("textAlignment"), "left")

\* C1 witness: global contentPadding 80 with slide contentPadding 40 has
\* resolved to 40.
C1_Witness ==
    /\ slide.contentPadding = Some(40)
    /\ GlobalSetting("contentPadding") = Some(80)
    /\ resolved.contentPadding = Some(40)

\* C2 (as claimed): for every tunable parameter a template uses, the per-slide
\* override is the effective value whenever it is present, 0 included.
C2_SlideOverrideWins ==
    \A f \in SlideFields \cap DOMAIN resolved :
        IsDefined(slide[f]) => resolved[f] = slide[f]

\* C3: when neither the slide nor the global settings set a value the
\* resolved values are the hard defaults (image scale 50 in feed-text and 45
\* in cinematic-image, crop offset 50, canvas offset 0, image margin 0,
\* gradient height 60, overlay opacity 50, font style MODERN, font scale 1.0),
\* and no resolved field is ever undefined.
C3_HardDefaults ==
    /\ \A f \in DOMAIN resolved : resolved[f] # Undefined
    /\ slide.imageScale = Undefined =>
           /\ style = "TWITTER" => resolved.imageScale = Some(50)
           /\ style = "STORYTELLER" => resolved.imageScale = Some(45)
    /\ slide.imageOffsetY = Undefined => resolved.imageOffsetY = Some(50)
    /\ (style = "TWITTER" /\ slide.imageCanvasOffset = Undefined
            /\ GlobalSetting("imageCanvasOffset") = Undefined)
           => resolved.imageCanvasOffset = Some(0)
    /\ (style = "TWITTER" /\ slide.imageMargin = Undefined
            /\ GlobalSetting("imageMargin") = Undefined)
           => resolved.imageMargin = Some(0)
    /\ (style # "TWITTER" /\ slide.gradientHeight = Undefined)
           => resolved.gradientHeight = Some(60)
    /\ slide.backgroundOverlayOpacity = Undefined
           => resolved.backgroundOverlayOpacity = Some(50)
    /\ (slide.fontStyle = Undefined /\ fontStyle = Undefined)
           => resolved.fontStyle = Some("MODERN")
    /\ (slide.fontScale = Undefined /\ fontScale = Undefined)
           => resolved.fontScale = Some(10)

\* C3 witness: the cinematic template rendered a slide that sets nothing,
\* with no global settings, at image scale 45.
C3_Witness ==
    /\ style = "STORYTELLER"
    /\ slide = NoSlideOverrides
    /\ layoutSettings = Undefined
    /\ fontStyle = Undefined
    /\ fontScale = Undefined
    /\ resolved.imageScale = Some(45)
    /\ resolved.fontStyle = Some("MODERN")

(***************************************************************************)
(* String primitives of JavaScript, on sequences of characters.            *)
(***************************************************************************)
\* the substring d occurs in s at (1-based) position i
HasAt(s, i, d) ==
    /\ i >= 1
    /\ i + Len(d) - 1 <= Len(s)
    /\ SubSeq(s, i, i + Len(d) - 1) = d

\* s.startsWith(d)
StartsWith(s, d) == HasAt(s, 1, d)

\* s.endsWith(d)
EndsWith(s, d) == Len(s) >= Len(d) /\ HasAt(s, Len(s) - Len(d) + 1, d)

\* s.slice(a, -b), a >= 0 and b >= 0 counted from the two ends; empty when
\* the ends cross
SliceEnds(s, a, b) ==
    LET from == IF a > Len(s) THEN Len(s) ELSE a
        to   == IF Len(s) - b < 0 THEN 0 ELSE Len(s) - b
    IN SubSeq(s, from + 1, to)

\* s.slice(a)
SliceFrom(s, a) == SubSeq(s, a + 1, Len(s))

Min(S) == CHOOSE x \in S : \A y \in S : x <= y
Max(S) == CHOOSE x \in S : \A y \in S : x >= y

(***************************************************************************)
(* The inline parser: text.split(/(\*\*.*?\*\*|\*.*?\*|~~.*?~~|__.*?__)/g) *)
(* and the mapping of the parts.                                           *)
(***************************************************************************)
\* the opening-and-closing marker of each alternative, in the regex's order
Delimiters == << <<"*", "*">>, <<"*">>, <<"~", "~">>, <<"_", "_">> >>

\* where d.*?d can close when its content starts at `from`: `.` matches no
\* line terminator
ClosePositions(s, from, d) ==
    {k \in from..Len(s) :
        /\ HasAt(s, k, d)
        /\ \A j \in from..(k - 1) : s[j] # "\n"}

\* a greedy .* in place of the lazy .*?
LazyCloseAsGreedy(s, from, d) ==
    LET ks == ClosePositions(s, from, d) IN IF ks = {} THEN 0 ELSE Max(ks)

\* the lazy .*? takes the nearest closing marker; 0 when there is none
LazyClose(s, from, d) ==
    LET ks == ClosePositions(s, from, d) IN IF ks = {} THEN 0 ELSE Min(ks)

\* the last position of alternative n matched at position q, 0 for no match
AlternativeEnd(s, q, n) ==
    LET d == Delimiters[n]
    IN IF ~HasAt(s, q, d) THEN 0
       ELSE LET k == LazyClose(s, q + Len(d), d)
            IN IF k = 0 THEN 0 ELSE k + Len(d) - 1

\* the regex matched at position q: the first alternative that matches
\* there; 0 for no match
TokenEnd(s, q) ==
    LET ns == {n \in 1..Len(Delimiters) : AlternativeEnd(s, q, n) # 0}
    IN IF ns = {} THEN 0 ELSE AlternativeEnd(s, q, Min(ns))

\* String.prototype.split with the capturing regex: p is where the pending
\* literal starts, q where the next match is tried
RECURSIVE SplitFrom(_, _, _)
SplitFrom(s, p, q) ==
    IF q > Len(s) THEN << SubSeq(s, p, Len(s)) >>
    ELSE LET e == TokenEnd(s, q)
         IN IF e = 0 THEN SplitFrom(s, p, q + 1)
            ELSE <<SubSeq(s, p, q - 1), SubSeq(s, q, e)>>
                     \o SplitFrom(s, e + 1, e + 1)

SplitTokens(s) == SplitFrom(s, 1, 1)

\* an element of the array parseInline returns: a styled element with its
\* child text, or a bare string (tag "text")
Run(tag, text) == [tag |-> tag, text |-> text]

\* bold sliced like italic: slice(1, -1)
MapPartBoldSlicedAsItalic(part, highlightTag) ==
    IF StartsWith(part, <<"*", "*">>) /\ EndsWith(part, <<"*", "*">>)
        THEN Run("strong", SliceEnds(part, 1, 1))
    ELSE IF StartsWith(part, <<"*">>) /\ EndsWith(part, <<"*">>)
        THEN Run("em", SliceEnds(part, 1, 1))
    ELSE IF StartsWith(part, <<"~", "~">>) /\ EndsWith(part, <<"~", "~">>)
        THEN Run("s", SliceEnds(part, 2, 2))
    ELSE IF StartsWith(part, <<"_", "_">>) /\ EndsWith(part, <<"_", "_">>)
        THEN Run(highlightTag, SliceEnds(part, 2, 2))
    ELSE Run("text", part)

\* the italic test placed before the bold test
MapPartItalicFirst(part, highlightTag) ==
    IF StartsWith(part, <<"*">>) /\ EndsWith(part, <<"*">>)
        THEN Run("em", SliceEnds(part, 1, 1))
    ELSE IF StartsWith(part, <<"*", "*">>) /\ EndsWith(part, <<"*", "*">>)
        THEN Run("strong", SliceEnds(part, 2, 2))
    ELSE IF StartsWith(part, <<"~", "~">>) /\ EndsWith(part, <<"~", "~">>)
        THEN Run("s", SliceEnds(part, 2, 2))
    ELSE IF StartsWith(part, <<"_", "_">>) /\ EndsWith(part, <<"_", "_">>)
        THEN Run(highlightTag, SliceEnds(part, 2, 2))
    ELSE Run("text", part)

\* the callback of parts.map: the first test that passes decides
MapPart(part, highlightTag) ==
    IF StartsWith(part, <<"*", "*">>) /\ EndsWith(part, <<"*", "*">>)
        THEN Run("strong", SliceEnds(part, 2, 2))
    ELSE IF StartsWith(part, <<"*">>) /\ EndsWith(part, <<"*">>)
        THEN Run("em", SliceEnds(part, 1, 1))
    ELSE IF StartsWith(part, <<"~", "~">>) /\ EndsWith(part, <<"~", "~">>)
        THEN Run("s", SliceEnds(part, 2, 2))
    ELSE IF StartsWith(part, <<"_", "_">>) /\ EndsWith(part, <<"_", "_">>)
        THEN Run(highlightTag, SliceEnds(part, 2, 2))
    ELSE Run("text", part)

MapParts(parts, highlightTag) ==
    [i \in 1..Len(parts) |-> MapPart(parts[i], highlightTag)]

\* TwitterSlide.tsx: __x__ is underlined
TwitterParseInline(text) == MapParts(SplitTokens(text), "u")

\* StorytellerSlide.tsx: __x__ is a highlighted span
StorytellerParseInline(text) == MapParts(SplitTokens(text), "span")

\* LessonSlide.tsx: __x__ is a highlighted span
LessonParseInline(text) == MapParts(SplitTokens(text), "span")

parseInline(st, text) ==
    CASE st = "TWITTER" -> TwitterParseInline(text)
      [] st = "STORYTELLER" -> StorytellerParseInline(text)
      [] st = "LESSON" -> LessonParseInline(text)

(***************************************************************************)
(* The inline specification: a line is typed character by character, or    *)
(* one of the sample lines is pasted, and the template of the current      *)
(* style parses it.                                                        *)
(***************************************************************************)
InlineChars == {"*", "~", "_", "a", " "}

BoldAndItalicLine ==
    <<"*", "*", "b", "o", "l", "d", "*", "*", " ", "a", "n", "d", " ",
      "*", "i", "t", "a", "l", "i", "c", "*">>
TwoBoldLine ==
    <<"*", "*", "a", "*", "*", " ", "b", " ", "*", "*", "c", "*", "*">>
StrikeInBoldLine == <<"*", "*", "~", "~", "a", "~", "~", "*", "*">>
UnclosedBoldLine == <<"*", "*", "b", "o", "l", "d">>
LoneStrikeLine == <<"a", " ", "~", "~", " ", "b">>
UnclosedHighlightLine == <<"_", "_", "x">>

SampleLines ==
    {BoldAndItalicLine, TwoBoldLine, StrikeInBoldLine, UnclosedBoldLine,
     LoneStrikeLine, UnclosedHighlightLine}

ParsedLine(st, l) ==
    /\ style' = st
    /\ line' = l
    /\ runs' = parseInline(st, l)
    /\ UNCHANGED <<layoutVars, blockVars, composeVars, serviceVars>>

TypeChar ==
    /\ Len(line) < MaxLineLen
    /\ \E c \in InlineChars : ParsedLine(style, Append(line, c))

PasteLine == \E l \in SampleLines \ {line} : ParsedLine(style, l)

ClearLine == line # <<>> /\ ParsedLine(style, <<>>)

\* the same line parsed by another template's parseInline
ChangeStyleOfLine == \E st \in Styles \ {style} : ParsedLine(st, line)

InitInline ==
    /\ style = "TWITTER"
    /\ theme = "LIGHT"
    /\ slide = NoSlideOverrides
    /\ layoutSettings = Undefined
    /\ fontStyle = Undefined
    /\ fontScale = Undefined
    /\ resolved = RenderLayout("TWITTER", NoSlideOverrides, "LIGHT", Undefined,
                               Undefined, Undefined)
    /\ line = <<>>
    /\ runs = parseInline("TWITTER", <<>>)
    /\ content = <<>>
    /\ blocks = <<>>
    /\ split = [titleLines |-> <<>>, bodyLines |-> <<>>]
    /\ showSlideNumbers = TRUE
    /\ forExport = FALSE
    /\ tree = <<>>
    /\ accentColor = Undefined
    /\ colors = NoColors
    /\ ServicesIdle

NextInline ==
    \/ TypeChar
    \/ PasteLine
    \/ ClearLine
    \/ ChangeStyleOfLine

SpecInline == InitInline /\ [][NextInline]_vars

(***************************************************************************)
(* Claims about the inline parser.                                         *)
(***************************************************************************)
RECURSIVE Flatten(_)
Flatten(ss) == IF ss = <<>> THEN <<>> ELSE Head(ss) \o Flatten(Tail(ss))

\* the text of the runs, concatenated in order
RunsText(rs) == Flatten([i \in 1..Len(rs) |-> rs[i].text])

IsStyled(r) == r.tag # "text"

\* what is displayed: a bare empty string, which split puts before a leading
\* and after a trailing token, renders nothing and is no run
IsVisibleRun(r) == IsStyled(r) \/ r.text # <<>>
VisibleRuns(rs) == SelectSeq(rs, IsVisibleRun)

Contains(s, d) == \E i \in 1..Len(s) : HasAt(s, i, d)

\* the marker that opens and closes a styled run
MarkerOf(tag) ==
    CASE tag = "strong" -> <<"*", "*">>
      [] tag = "em" -> <<"*">>
      [] tag = "s" -> <<"~", "~">>
      [] tag \in {"u", "span"} -> <<"_", "_">>

\* no marker of the line is closed: none occurs twice without overlap
NoClosedDelimiter(l) ==
    \A n \in 1..Len(Delimiters) :
        LET d == Delimiters[n]
        IN \A i, j \in 1..Len(l) :
               ~(HasAt(l, i, d) /\ HasAt(l, j, d) /\ j >= i + Len(d))

\* C5 (as claimed): for every line in which a delimiter has no matching
\* closing marker ("**bold", "a ~~ b", "__x", and every line none of whose
\* markers is closed) the text of the runs, concatenated in order, is the line
\* unchanged and no styled run is produced.
C5_UnmatchedDelimiterKept ==
    (line \in {UnclosedBoldLine, LoneStrikeLine, UnclosedHighlightLine}
        \/ NoClosedDelimiter(line))
    => /\ RunsText(runs) = line
       /\ \A i \in 1..Len(runs) : ~IsStyled(runs[i])

\* C6: "**bold** and *italic*" yields, in original order, a strong run
\* "bold", a literal run " and " and an emphasis run "italic": two styled
\* runs and one literal run and no other; the array itself holds besides
\* them only the empty string split puts at either end.
C6_BoldAndItalic ==
    line = BoldAndItalicLine =>
        /\ VisibleRuns(runs) =
               << Run("strong", <<"b", "o", "l", "d">>),
                  Run("text", <<" ", "a", "n", "d", " ">>),
                  Run("em", <<"i", "t", "a", "l", "i", "c">>) >>
        /\ runs = <<Run("text", <<>>)>> \o VisibleRuns(runs)
                      \o <<Run("text", <<>>)>>

\* C6 witness: the line has been parsed into its three visible runs.
C6_Witness ==
    /\ line = BoldAndItalicLine
    /\ Len(VisibleRuns(runs)) = 3
    /\ runs[2].tag = "strong"

StripMarkers(s) == SelectSeq(s, LAMBDA c : c \notin {"*", "~", "_"})

\* C7: tokens do not nest and close at the nearest closing marker: a styled
\* run's text never contains the marker of its kind; a line that opens with
\* "**" and has a later "**" starts with a strong run (bold before italic)
\* whose text is what stands before the nearest one; the text of a token is
\* emitted verbatim, markers of another kind included; apart from marker
\* characters the runs hold the text of the line in order; and
\* "**a** b **c**" yields two strong runs with " b " between them.
C7_NearestCloseNoNesting ==
    /\ \A i \in 1..Len(runs) :
           IsStyled(runs[i]) => ~Contains(runs[i].text, MarkerOf(runs[i].tag))
    /\ \A k \in 3..Len(line) :
           (/\ HasAt(line, 1, <<"*", "*">>)
            /\ HasAt(line, k, <<"*", "*">>)
            /\ \A j \in 3..(k - 1) : ~HasAt(line, j, <<"*", "*">>))
           => /\ runs[1] = Run("text", <<>>)
              /\ runs[2] = Run("strong", SubSeq(line, 3, k - 1))
    /\ StripMarkers(RunsText(runs)) = StripMarkers(line)
    /\ line = StrikeInBoldLine =>
           VisibleRuns(runs) = <<Run("strong", <<"~", "~", "a", "~", "~">>)>>
    /\ line = TwoBoldLine =>
           VisibleRuns(runs) =
               << Run("strong", <<"a">>),
                  Run("text", <<" ", "b", " ">>),
                  Run("strong", <<"c">>) >>

\* C7 witness: "**a** b **c**" has been parsed into two strong runs.
C7_Witness ==
    /\ line = TwoBoldLine
    /\ Len(VisibleRuns(runs)) = 3
    /\ runs[2].tag = "strong"
    /\ runs[4].tag = "strong"

\* C8: "****" and "**" each produce a styled run whose text is empty, and no
\* asterisk appears in the output of either.
C8_EmptySpans ==
    line \in {<<"*", "*", "*", "*">>, <<"*", "*">>} =>
        /\ \E i \in 1..Len(runs) : IsStyled(runs[i]) /\ runs[i].text = <<>>
        /\ ~Contains(RunsText(runs), <<"*">>)

\* C8 witness: "****" has been parsed into an empty strong run.
C8_Witness ==
    /\ line = <<"*", "*", "*", "*">>
    /\ runs[2] = Run("strong", <<>>)

(***************************************************************************)
(* The block markdown resolver: renderMarkdown of the three templates.     *)
(***************************************************************************)
\* what String.trim removes (a line holds no "\n")
Whitespace == {" ", "\t", "\r"}

\* line.trim()
Trim(s) ==
    LET keep == {i \in 1..Len(s) : s[i] \notin Whitespace}
    IN IF keep = {} THEN <<>> ELSE SubSeq(s, Min(keep), Max(keep))

\* text.split('\n')
RECURSIVE SplitLines(_)
SplitLines(s) ==
    LET nl == {i \in 1..Len(s) : s[i] = "\n"}
    IN IF nl = {} THEN <<s>>
       ELSE <<SubSeq(s, 1, Min(nl) - 1)>>
                \o SplitLines(SubSeq(s, Min(nl) + 1, Len(s)))

\* \d
Digits == {"0", "1", "2", "3", "4", "5", "6", "7", "8", "9"}

\* what /^\d+/ matches: the longest prefix of digits
LeadingDigits(s) ==
    LET stop == {i \in 1..Len(s) : s[i] \notin Digits}
    IN IF stop = {} THEN s ELSE SubSeq(s, 1, Min(stop) - 1)

\* /^\d+\. /.test(trimmed)
IsNumbered(s) ==
    LET n == Len(LeadingDigits(s))
    IN n >= 1 /\ HasAt(s, n + 1, <<".", " ">>)

\* every numbered item shown as item 1
MatchNumberRenumbered(s) == <<"1">>

\* trimmed.match(/^\d+/)?.[0], on a line that passed the test
MatchNumber(s) == LeadingDigits(s)

\* trimmed.replace(/^\d+\. /, '')
StripNumber(s) == SliceFrom(s, Len(LeadingDigits(s)) + 2)

\* an element of the array renderMarkdown returns: the element's kind, the
\* list marker it shows (the bullet glyph, named by its code point, or the
\* number), its base font size in px
\* before the font scale, the text handed to parseInline and what
\* parseInline made of it
Block(kind, glyph, number, size, text, children) ==
    [kind |-> kind, glyph |-> glyph, number |-> number, size |-> size,
     text |-> text, children |-> children]

\* the bullet glyph of a template, named by its code point
BulletGlyph(st) == IF st = "TWITTER" THEN "U+2022" ELSE "U+25CF"

\* h2Size and bodySize of a template, in px before the font scale
H2Size(st) == IF st = "TWITTER" THEN 60 ELSE 48
BodySize(st) == IF st = "TWITTER" THEN 48 ELSE 36

\* the heading tests made on the trimmed line
ResolveLineHeadingsTrimmed(st, l) ==
    LET trimmed == Trim(l)
    IN IF StartsWith(trimmed, <<"#", " ">>)
           THEN Block("h1", <<>>, <<>>, 72, SliceFrom(trimmed, 2), <<>>)
       ELSE IF StartsWith(trimmed, <<"#", "#", " ">>)
           THEN Block("h2", <<>>, <<>>, H2Size(st), SliceFrom(trimmed, 3), <<>>)
       ELSE IF StartsWith(trimmed, <<"-", " ">>)
           THEN Block("bullet", BulletGlyph(st), <<>>, BodySize(st),
                      SliceFrom(l, 2), <<>>)
       ELSE IF IsNumbered(trimmed)
           THEN Block("numbered", <<>>, MatchNumber(trimmed), BodySize(st),
                      StripNumber(trimmed), <<>>)
       ELSE IF trimmed = <<>>
           THEN Block("spacer", <<>>, <<>>, 0, <<>>, <<>>)
       ELSE Block("p", <<>>, <<>>, BodySize(st), l, <<>>)

\* the chain of tests in the callback of lines.map, the same in the three
\* templates, which differ in the bullet glyph and the font sizes: the
\* element the line becomes and the text it hands to parseInline, its
\* children still to be parsed
ResolveLine(st, l) ==
    LET trimmed == Trim(l)
    IN IF StartsWith(l, <<"#", " ">>)
           THEN Block("h1", <<>>, <<>>, 72, SliceFrom(l, 2), <<>>)
       ELSE IF StartsWith(l, <<"#", "#", " ">>)
           THEN Block("h2", <<>>, <<>>, H2Size(st), SliceFrom(l, 3), <<>>)
       ELSE IF StartsWith(trimmed, <<"-", " ">>)
           THEN Block("bullet", BulletGlyph(st), <<>>, BodySize(st),
                      SliceFrom(l, 2), <<>>)
       ELSE IF IsNumbered(trimmed)
           THEN Block("numbered", <<>>, MatchNumber(trimmed), BodySize(st),
                      StripNumber(trimmed), <<>>)
       ELSE IF trimmed = <<>>
           THEN Block("spacer", <<>>, <<>>, 0, <<>>, <<>>)
       ELSE Block("p", <<>>, <<>>, BodySize(st), l, <<>>)

\* the callback of lines.map: every element but the spacer has the children
\* the template's parseInline makes of its text
RenderLine(st, l) ==
    LET b == ResolveLine(st, l)
    IN IF b.kind = "spacer" THEN b
       ELSE [b EXCEPT !.children = parseInline(st, b.text)]

TwitterRenderMarkdown(text) ==
    LET lines == SplitLines(text)
    IN [i \in 1..Len(lines) |-> RenderLine("TWITTER", lines[i])]

StorytellerRenderMarkdown(text) ==
    LET lines == SplitLines(text)
    IN [i \in 1..Len(lines) |-> RenderLine("STORYTELLER", lines[i])]

LessonRenderMarkdown(text) ==
    LET lines == SplitLines(text)
    IN [i \in 1..Len(lines) |-> RenderLine("LESSON", lines[i])]

renderMarkdown(st, text) ==
    CASE st = "TWITTER" -> TwitterRenderMarkdown(text)
      [] st = "STORYTELLER" -> StorytellerRenderMarkdown(text)
      [] st = "LESSON" -> LessonRenderMarkdown(text)

(***************************************************************************)
(* The title/body splitter: splitContentByHeaders of TwitterSlide and of   *)
(* LessonSlide, the same function in both files.                           *)
(***************************************************************************)
\* every line ended by a line break instead of lines separated by one
JoinLinesTerminated(ls) ==
    LET RECURSIVE Go(_)
        Go(i) == IF i > Len(ls) THEN <<>> ELSE ls[i] \o <<"\n">> \o Go(i + 1)
    IN Go(1)

\* lines.join('\n')
JoinLines(ls) ==
    LET RECURSIVE Go(_)
        Go(i) == IF i > Len(ls) THEN <<>>
                 ELSE IF i = Len(ls) THEN ls[i]
                 ELSE ls[i] \o <<"\n">> \o Go(i + 1)
    IN Go(1)

\* the loop body without the foundNonHeader flag
SplitStepEveryHeader(acc, l) ==
    LET trimmed == Trim(l)
    IN IF \/ StartsWith(trimmed, <<"#", " ">>)
          \/ StartsWith(trimmed, <<"#", "#", " ">>)
          \/ trimmed = <<>>
       THEN [acc EXCEPT !.titleLines = Append(@, l)]
       ELSE [acc EXCEPT !.foundNonHeader = TRUE, !.bodyLines = Append(@, l)]

\* the body of the for loop
SplitStep(acc, l) ==
    LET trimmed == Trim(l)
    IN IF /\ ~acc.foundNonHeader
          /\ \/ StartsWith(trimmed, <<"#", " ">>)
             \/ StartsWith(trimmed, <<"#", "#", " ">>)
             \/ trimmed = <<>>
       THEN [acc EXCEPT !.titleLines = Append(@, l)]
       ELSE [acc EXCEPT !.foundNonHeader = TRUE, !.bodyLines = Append(@, l)]

\* for (const line of lines)
RECURSIVE SplitLoop(_, _, _)
SplitLoop(lines, i, acc) ==
    IF i > Len(lines) THEN acc
    ELSE SplitLoop(lines, i + 1, SplitStep(acc, lines[i]))

splitContentByHeaders(c) ==
    LET r == SplitLoop(SplitLines(c), 1,
                       [titleLines |-> <<>>, bodyLines |-> <<>>,
                        foundNonHeader |-> FALSE])
    IN [titleLines |-> JoinLines(r.titleLines),
        bodyLines |-> JoinLines(r.bodyLines)]

(***************************************************************************)
(* The block specification: a slide's content is typed character by        *)
(* character, or a sample content is pasted, and the template of the       *)
(* current style resolves it into blocks; the splitter is applied to the   *)
(* same content.                                                           *)
(***************************************************************************)
BlockChars == {"#", " ", "-", "5", ".", "a", "\n"}

FifthItemContent ==
    <<"5", ".", " ", "F", "i", "f", "t", "h", " ", "i", "t", "e", "m">>
HookContent ==
    <<"#", " ", "H", "o", "o", "k", "\n", "B", "o", "d", "y", " ", "l", "i",
      "n", "e">>
NumberedListContent ==
    <<"1", "0", ".", " ", "x", "\n", " ", " ", "5", ".", " ", "y", " ", "\n",
      "5", ".", " ", "z">>
MixedContent ==
    <<"#", "#", " ", "T", "\n", "\n", " ", "-", " ", "b", "\n", " ", "#", " ",
      "p", "\n", "0", "7", ".", " ", "n">>

TitleBodyContent ==
    <<"#", " ", "T", "\n", "\n", " ", "#", "#", " ", "U", "\n", "b", "\n",
      "\n", "#", " ", "x">>

\* a list item whose line is indented by two spaces
IndentedBulletContent == <<" ", " ", "-", " ", "i", "t", "e", "m">>

SampleContents ==
    {FifthItemContent, HookContent, NumberedListContent, MixedContent,
     TitleBodyContent, IndentedBulletContent}

RenderedContent(st, c) ==
    /\ style' = st
    /\ content' = c
    /\ blocks' = renderMarkdown(st, c)
    /\ split' = splitContentByHeaders(c)
    /\ UNCHANGED <<layoutVars, inlineVars, composeVars, serviceVars>>

TypeContent ==
    /\ Len(content) < MaxContentLen
    /\ \E c \in BlockChars : RenderedContent(style, Append(content, c))

PasteContent == \E c \in SampleContents \ {content} : RenderedContent(style, c)

ClearContent == content # <<>> /\ RenderedContent(style, <<>>)

\* the same content resolved by another template's renderMarkdown
ChangeStyleOfContent ==
    \E st \in Styles \ {style} : RenderedContent(st, content)

InitBlock ==
    /\ style = "TWITTER"
    /\ theme = "LIGHT"
    /\ slide = NoSlideOverrides
    /\ layoutSettings = Undefined
    /\ fontStyle = Undefined
    /\ fontScale = Undefined
    /\ resolved = RenderLayout("TWITTER", NoSlideOverrides, "LIGHT", Undefined,
                               Undefined, Undefined)
    /\ line = <<>>
    /\ runs = <<>>
    /\ content = <<>>
    /\ blocks = renderMarkdown("TWITTER", <<>>)
    /\ split = splitContentByHeaders(<<>>)
    /\ showSlideNumbers = TRUE
    /\ forExport = FALSE
    /\ tree = <<>>
    /\ accentColor = Undefined
    /\ colors = NoColors
    /\ ServicesIdle

NextBlock ==
    \/ TypeContent
    \/ PasteContent
    \/ ClearContent
    \/ ChangeStyleOfContent

SpecBlock == InitBlock /\ [][NextBlock]_vars

(***************************************************************************)
(* Claims about the block resolver.                                        *)
(***************************************************************************)
NewlinePositions(c) == {p \in 1..Len(c) : c[p] = "\n"}

\* the position of the k-th line break of c
NthNewline(c, k) ==
    CHOOSE p \in NewlinePositions(c) :
        Cardinality({q \in NewlinePositions(c) : q < p}) = k - 1

LineCount(c) == Cardinality(NewlinePositions(c)) + 1

\* the i-th input line: what stands between two successive line breaks
InputLine(c, i) ==
    SubSeq(c,
           IF i = 1 THEN 1 ELSE NthNewline(c, i - 1) + 1,
           IF i = LineCount(c) THEN Len(c) ELSE NthNewline(c, i) - 1)

\* <digits>". " opens the trimmed line, the digits being its first n characters
NumberedAt(t, n) ==
    /\ n >= 1
    /\ \A j \in 1..n : t[j] \in Digits
    /\ HasAt(t, n + 1, <<".", " ">>)

\* the classification of a line, by the first rule that applies
KindOfLine(l) ==
    IF StartsWith(l, <<"#", " ">>) THEN "h1"
    ELSE IF StartsWith(l, <<"#", "#", " ">>) THEN "h2"
    ELSE IF StartsWith(Trim(l), <<"-", " ">>) THEN "bullet"
    ELSE IF \E n \in 1..Len(Trim(l)) : NumberedAt(Trim(l), n) THEN "numbered"
    ELSE IF Trim(l) = <<>> THEN "spacer"
    ELSE "p"

\* C9: the block resolver produces exactly one block per input line, in line
\* order, classified by the first rule that applies ("# " heading-1 and "## "
\* heading-2 on the line itself, prefix stripped; "- " bullet, digits ". "
\* numbered and empty spacer on the trimmed line; otherwise paragraph), the
\* same in all three templates.
C9_OneBlockPerLine ==
    /\ Len(blocks) = LineCount(content)
    /\ \A i \in 1..Len(blocks) :
           LET l == InputLine(content, i)
           IN /\ blocks[i].kind = KindOfLine(l)
              /\ blocks[i].kind = "h1" => blocks[i].text = SubSeq(l, 3, Len(l))
              /\ blocks[i].kind = "h2" => blocks[i].text = SubSeq(l, 4, Len(l))
              /\ blocks[i].kind = "p" => blocks[i].text = l

\* C9 witness: a content of five lines has been resolved into heading-2,
\* spacer, bullet, paragraph and numbered item, in that order.
C9_Witness ==
    /\ content = MixedContent
    /\ [i \in 1..Len(blocks) |-> blocks[i].kind]
           = <<"h2", "spacer", "bullet", "p", "numbered">>

\* C10: a numbered item displays the number the user wrote: for every line
\* whose trimmed form is <digits>". "<text> the block is a numbered item whose
\* number is exactly <digits> and whose text is <text>, whatever the line's
\* position and the other lines; "5. Fifth item" shows 5.
C10_NumberVerbatim ==
    /\ \A i \in 1..Len(blocks) :
           LET t == Trim(InputLine(content, i))
           IN \A n \in 1..Len(t) :
                  NumberedAt(t, n) =>
                      /\ blocks[i].kind = "numbered"
                      /\ blocks[i].number = SubSeq(t, 1, n)
                      /\ blocks[i].text = SubSeq(t, n + 3, Len(t))
    /\ content = FifthItemContent =>
           /\ Len(blocks) = 1
           /\ blocks[1].number = <<"5">>
           /\ blocks[1].text = <<"F", "i", "f", "t", "h", " ", "i", "t", "e", "m">>

\* C10 witness: the list "10. x", "  5. y ", "5. z" has been resolved and
\* shows 10, 5 and 5.
C10_Witness ==
    /\ content = NumberedListContent
    /\ [i \in 1..Len(blocks) |-> blocks[i].number] = << <<"1", "0">>, <<"5">>, <<"5">> >>
    /\ blocks[2].text = <<"y">>

(***************************************************************************)
(* Claims about the title/body splitter.                                   *)
(***************************************************************************)
\* a line the splitter counts as title: a "# " or "## " heading or a blank
\* line, leading and trailing whitespace aside
IsTitleLine(l) ==
    \/ StartsWith(Trim(l), <<"#", " ">>)
    \/ StartsWith(Trim(l), <<"#", "#", " ">>)
    \/ Trim(l) = <<>>

\* how many lines the maximal prefix of title lines has
TitlePrefix(c) ==
    CHOOSE k \in 0..LineCount(c) :
        /\ \A i \in 1..k : IsTitleLine(InputLine(c, i))
        /\ k = LineCount(c) \/ ~IsTitleLine(InputLine(c, k + 1))

\* lines a..b of c with the line breaks between them, nothing if a > b
LinesText(c, a, b) ==
    IF a > b THEN <<>>
    ELSE SubSeq(c,
                IF a = 1 THEN 1 ELSE NthNewline(c, a - 1) + 1,
                IF b = LineCount(c) THEN Len(c) ELSE NthNewline(c, b) - 1)

\* C11: the splitter is an order-preserving partition of the content's lines:
\* the title is the maximal prefix of heading-1, heading-2 or blank lines, the
\* body is every line from the first other line on, later headings and blank
\* lines included, and title lines followed by body lines are the content's
\* lines in their order.
C11_SplitterPartition ==
    LET k == TitlePrefix(content)
    IN /\ split.titleLines = LinesText(content, 1, k)
       /\ split.bodyLines = LinesText(content, k + 1, LineCount(content))

\* C11 witness: "# T", "", " ## U", "b", "", "# x" has been split after its
\* third line, the later blank line and heading staying in the body.
C11_Witness ==
    /\ content = TitleBodyContent
    /\ split.titleLines = SubSeq(TitleBodyContent, 1, 10)
    /\ split.bodyLines = SubSeq(TitleBodyContent, 12, 17)

\* C12: the splitter is idempotent on its title output: splitting the title
\* again returns that title as title and an empty body.
C12_SplitterIdempotent ==
    splitContentByHeaders(split.titleLines) =
        [titleLines |-> split.titleLines, bodyLines |-> <<>>]

\* C12 witness: a content with a title of two lines and a body has been
\* split, and its title split again.
C12_Witness ==
    /\ content = MixedContent
    /\ split.titleLines = <<"#", "#", " ", "T", "\n">>
    /\ split.bodyLines # <<>>
    /\ splitContentByHeaders(split.titleLines).bodyLines = <<>>

(***************************************************************************)
(* The element tree a template returns. An element is a record             *)
(*   kind        frame, background, overlay, header, illustration,         *)
(*               gradient, text or footer                                  *)
(*   parent      the element it is a child of: "" for the frame's own      *)
(*               children, content for the children of the z-10 content    *)
(*               container, illustration or background for a gradient      *)
(*   z           the z-index of the element or of the container it is in,  *)
(*               undefined when neither has one                            *)
(*   height      its height in percent, undefined when left to the layout  *)
(*   offset      pixels added to that height                               *)
(*   anchor      the edge an absolutely positioned element is pinned to    *)
(*               and its distance from that edge in percent                *)
(*   padding     its top padding as <<amount, unit>>                       *)
(*   color, opacity   its background colour and opacity in percent         *)
(*   placeholder whether it shows the "Generating..." indicator            *)
(*   section     for a text element all, title or body                     *)
(*   blocks      for a text element what renderMarkdown returned           *)
(*   parts       for a header or footer what it holds                      *)
(*   align       for a footer how it is justified                          *)
(*   transition  whether it carries a transition class                     *)
(* and the tree is the sequence of the elements in document order.         *)
(***************************************************************************)
Element(kind) ==
    [kind |-> kind, parent |-> "", z |-> Undefined, height |-> Undefined,
     offset |-> 0, anchor |-> <<>>, padding |-> <<>>, color |-> "",
     opacity |-> Undefined, placeholder |-> FALSE, section |-> "",
     blocks |-> <<>>, parts |-> {}, align |-> "", transition |-> FALSE]

\* a string used as a condition: undefined and '' are falsy
Truthy(x) == IsDefined(x) /\ Value(x) # ""

\* !text.trim(): nothing but whitespace and line breaks
IsBlankText(t) == \A i \in 1..Len(t) : t[i] \in Whitespace \cup {"\n"}

\* slide.showBackgroundImage && slide.backgroundImageUrl
ShowBackground(s) == s.showBackgroundImage /\ Truthy(s.backgroundImageUrl)

\* the export drawn on the light background whatever the theme is
FrameLightOnExport(th, dark, light, fexp) ==
    [Element("frame") EXCEPT !.height = Some(100),
                             !.color = IF th = "DARK" /\ ~fexp THEN dark
                                       ELSE light,
                             !.transition = ~fexp]

\* the root div: transition-colors unless forExport
Frame(th, dark, light, fexp) ==
    [Element("frame") EXCEPT !.height = Some(100),
                             !.color = IF th = "DARK" THEN dark ELSE light,
                             !.transition = ~fexp]

\* the full-bleed background image and the colour overlay above it
BackgroundLayers(lay) ==
    << [Element("background") EXCEPT !.z = Some(0), !.height = Some(100)],
       [Element("overlay") EXCEPT !.z = Some(1), !.height = Some(100),
                                  !.color = Value(lay.backgroundOverlayColor),
                                  !.opacity = lay.backgroundOverlayOpacity] >>

(***************************************************************************)
(* TwitterSlide, the feed-text template.                                   *)
(***************************************************************************)
\* renderImage with the height left at imageHeightPercent% whatever the
\* canvas offset is
TwitterRenderImageUnadjusted(s, lay) ==
    IF ~s.showImage THEN <<>>
    ELSE << [Element("illustration") EXCEPT
                !.parent = "content", !.z = Some(10),
                !.height = lay.imageScale,
                !.placeholder = ~Truthy(s.imageUrl),
                !.transition = TRUE] >>

\* renderImage: adjustedHeight is imageHeightPercent% plus the canvas offset
TwitterRenderImage(s, lay) ==
    IF ~s.showImage THEN <<>>
    ELSE << [Element("illustration") EXCEPT
                !.parent = "content", !.z = Some(10),
                !.height = lay.imageScale,
                !.offset = Value(lay.imageCanvasOffset),
                !.placeholder = ~Truthy(s.imageUrl),
                !.transition = TRUE] >>

\* renderTextContent
TwitterRenderTextContent(c, heightPercent) ==
    << [Element("text") EXCEPT
           !.parent = "content", !.z = Some(10),
           !.height = Some(heightPercent), !.section = "all",
           !.blocks = TwitterRenderMarkdown(c), !.transition = TRUE] >>

\* the title or the body section of the image-after-title layout, left out
\* when its text is blank
TwitterRenderSection(section, text, padding) ==
    IF IsBlankText(text) THEN <<>>
    ELSE << [Element("text") EXCEPT
                !.parent = "content", !.z = Some(10), !.section = section,
                !.padding = padding, !.blocks = TwitterRenderMarkdown(text)] >>

\* renderMainContent with the default branch taken for image-first too
TwitterRenderMainContentDefaultOnly(s, c, lay) ==
    TwitterRenderTextContent(
        c, IF s.showImage THEN 100 - Value(lay.imageScale) ELSE 100)
    \o TwitterRenderImage(s, lay)

\* renderMainContent: the switch on contentLayout
TwitterRenderMainContent(s, c, lay) ==
    LET textHeightPercent ==
            IF s.showImage THEN 100 - Value(lay.imageScale) ELSE 100
        titleBody ==
            IF lay.contentLayout = Some("image-after-title")
            THEN splitContentByHeaders(c)
            ELSE [titleLines |-> <<>>, bodyLines |-> <<>>]
    IN CASE lay.contentLayout = Some("image-first") ->
                TwitterRenderImage(s, lay)
                \o TwitterRenderTextContent(c, textHeightPercent)
         [] lay.contentLayout = Some("image-after-title") ->
                TwitterRenderSection("title", titleBody.titleLines, <<>>)
                \o TwitterRenderImage(s, lay)
                \o TwitterRenderSection("body", titleBody.bodyLines,
                                        <<Value(lay.imageTextSpacing), "px">>)
         [] OTHER ->
                TwitterRenderTextContent(c, textHeightPercent)
                \o TwitterRenderImage(s, lay)

TwitterSlide(s, c, th, ssn, fexp, ls, fs, fsc) ==
    LET lay == TwitterSlideLayout(s, th, ls, fs, fsc)
    IN <<Frame(th, "#000000", "#FFFFFF", fexp)>>
       \o (IF ShowBackground(s) THEN BackgroundLayers(lay) ELSE <<>>)
       \o << [Element("header") EXCEPT
                 !.parent = "content", !.z = Some(10),
                 !.parts = {"avatar", "name", "badge", "handle"}] >>
       \o TwitterRenderMainContent(s, c, lay)
       \o (IF ssn
           THEN << [Element("footer") EXCEPT
                       !.parent = "content", !.z = Some(10), !.align = "end",
                       !.parts = {"pagination"}] >>
           ELSE <<>>)

(***************************************************************************)
(* StorytellerSlide, the cinematic-image template.                         *)
(***************************************************************************)
\* the overlay mode kept for cover slides only
StorytellerIsOverlayOnCover(s) ==
    s.showImage /\ s.overlayImage # Some(FALSE) /\ s.type = "COVER"

\* slide.showImage && (slide.overlayImage !== false)
StorytellerIsOverlay(s) == s.showImage /\ s.overlayImage # Some(FALSE)

\* split decided by the flag alone, whatever isOverlay is
StorytellerShowSplitByFlag(s) == s.showImage /\ s.overlayImage # Some(TRUE)

\* slide.showImage && !isOverlay
StorytellerShowSplit(s) == s.showImage /\ ~StorytellerIsOverlay(s)

\* Math.max(0, overlayImageHeight - 12)
OverlayTextPaddingTop(overlayImageHeight) ==
    IF overlayImageHeight - 12 > 0 THEN overlayImageHeight - 12 ELSE 0

\* the centered footer of StorytellerSlide and LessonSlide: branding, then
\* pagination when slide numbers are shown
CenteredFooter(ssn) ==
    << [Element("footer") EXCEPT
           !.z = Some(20), !.anchor = <<"bottom", 0>>, !.align = "center",
           !.parts = {"avatar", "handle", "badge"}
                       \cup (IF ssn THEN {"pagination"} ELSE {})] >>

\* the gradient pinned to the top edge of the illustration
StorytellerOverlayImageGradientOnTop(s, th, lay, fexp) ==
    IF StorytellerIsOverlay(s) /\ Truthy(s.imageUrl)
    THEN << [Element("illustration") EXCEPT
                !.z = Some(2), !.anchor = <<"top", 0>>,
                !.height = lay.imageScale, !.transition = ~fexp],
            [Element("gradient") EXCEPT
                !.parent = "illustration", !.z = Some(2),
                !.anchor = <<"top", 0>>, !.height = lay.gradientHeight,
                !.color = IF th = "DARK" THEN "rgb(10, 10, 10)"
                          ELSE "rgb(255, 255, 255)"] >>
    ELSE <<>>

\* the illustration of the overlay mode with the gradient at its bottom
StorytellerOverlayImage(s, th, lay, fexp) ==
    IF StorytellerIsOverlay(s) /\ Truthy(s.imageUrl)
    THEN << [Element("illustration") EXCEPT
                !.z = Some(2), !.anchor = <<"top", 0>>,
                !.height = lay.imageScale, !.transition = ~fexp],
            [Element("gradient") EXCEPT
                !.parent = "illustration", !.z = Some(2),
                !.anchor = <<"bottom", 0>>, !.height = lay.gradientHeight,
                !.color = IF th = "DARK" THEN "rgb(10, 10, 10)"
                          ELSE "rgb(255, 255, 255)"] >>
    ELSE <<>>

\* the illustration of the split mode
StorytellerSplitImage(s, lay, fexp) ==
    IF StorytellerShowSplit(s) /\ Truthy(s.imageUrl)
    THEN << [Element("illustration") EXCEPT
                !.z = Some(2), !.height = lay.imageScale,
                !.transition = ~fexp] >>
    ELSE <<>>

\* the text content
StorytellerText(s, c, lay) ==
    << [Element("text") EXCEPT
           !.z = Some(10), !.section = "all",
           !.height = IF StorytellerShowSplit(s)
                      THEN Some(100 - Value(lay.imageScale)) ELSE Some(100),
           !.padding =
               IF StorytellerIsOverlay(s) /\ Truthy(s.imageUrl)
               THEN <<OverlayTextPaddingTop(Value(lay.imageScale)), "%">>
               ELSE IF StorytellerShowSplit(s) THEN <<3, "rem">>
               ELSE <<0, "">>,
           !.blocks = StorytellerRenderMarkdown(c)] >>

StorytellerSlide(s, c, th, ssn, fexp, ls, fs, fsc) ==
    LET lay == StorytellerSlideLayout(s, th, ls, fs, fsc)
    IN <<Frame(th, "#0a0a0a", "#ffffff", fexp)>>
       \o (IF ShowBackground(s) THEN BackgroundLayers(lay) ELSE <<>>)
       \o StorytellerOverlayImage(s, th, lay, fexp)
       \o StorytellerSplitImage(s, lay, fexp)
       \o StorytellerText(s, c, lay)
       \o CenteredFooter(ssn)

(***************************************************************************)
(* LessonSlide, the lesson template.                                       *)
(***************************************************************************)
\* slide.type === SlideType.COVER
LessonIsCover(s) == s.type = "COVER"

\* isCover && slide.showBackgroundImage && slide.backgroundImageUrl
LessonShowCoverImage(s) == LessonIsCover(s) /\ ShowBackground(s)

\* renderCoverSlide: the overlay mode, else the split mode
LessonRenderCoverSlide(s, c, th, lay, fexp) ==
    IF s.overlayImage # Some(FALSE)
    THEN (IF LessonShowCoverImage(s)
          THEN << [Element("background") EXCEPT
                      !.z = Some(2), !.height = Some(100),
                      !.transition = ~fexp],
                  [Element("gradient") EXCEPT
                      !.parent = "background", !.z = Some(2),
                      !.anchor = <<"top", Value(lay.imageScale)>>,
                      !.height = lay.gradientHeight,
                      !.opacity = lay.gradientOpacity,
                      !.color = IF th = "DARK" THEN "rgb(0, 0, 0)"
                                ELSE "rgb(255, 255, 255)"] >>
          ELSE <<>>)
         \o << [Element("text") EXCEPT
                   !.z = Some(10), !.section = "all",
                   !.anchor = <<"top", Value(lay.imageOffsetY)>>,
                   !.blocks = LessonRenderMarkdown(c)] >>
    ELSE (IF LessonShowCoverImage(s)
          THEN << [Element("background") EXCEPT
                      !.height = lay.imageScale, !.transition = ~fexp] >>
          ELSE <<>>)
         \o << [Element("text") EXCEPT
                   !.section = "all",
                   !.padding = <<Value(lay.contentPadding) \div 2, "px">>,
                   !.blocks = LessonRenderMarkdown(c)] >>

\* the title or the body section of a content slide with an image, left out
\* when its text is blank
LessonRenderSection(section, text, padding) ==
    IF IsBlankText(text) THEN <<>>
    ELSE << [Element("text") EXCEPT
                !.parent = "content", !.z = Some(10), !.section = section,
                !.padding = padding, !.blocks = LessonRenderMarkdown(text)] >>

\* the image placed after the body
LessonRenderContentWithImageLast(s, c, lay, fexp) ==
    LET titleBody == splitContentByHeaders(c)
    IN LessonRenderSection("title", titleBody.titleLines, <<>>)
       \o LessonRenderSection("body", titleBody.bodyLines,
                              <<Value(lay.imageTextSpacing), "px">>)
       \o << [Element("illustration") EXCEPT
                 !.parent = "content", !.z = Some(10),
                 !.height = lay.imageScale,
                 !.placeholder = ~Truthy(s.imageUrl),
                 !.transition = Truthy(s.imageUrl) /\ ~fexp] >>

\* renderContentWithImage: title, image, body
LessonRenderContentWithImage(s, c, lay, fexp) ==
    LET titleBody == splitContentByHeaders(c)
    IN LessonRenderSection("title", titleBody.titleLines, <<>>)
       \o << [Element("illustration") EXCEPT
                 !.parent = "content", !.z = Some(10),
                 !.height = lay.imageScale,
                 !.placeholder = ~Truthy(s.imageUrl),
                 !.transition = Truthy(s.imageUrl) /\ ~fexp] >>
       \o LessonRenderSection("body", titleBody.bodyLines,
                              <<Value(lay.imageTextSpacing), "px">>)

\* renderContentTextOnly
LessonRenderContentTextOnly(c) ==
    << [Element("text") EXCEPT
           !.parent = "content", !.z = Some(10), !.section = "all",
           !.blocks = LessonRenderMarkdown(c)] >>

LessonSlide(s, c, th, ssn, fexp, ls, fs, fsc) ==
    LET lay == LessonSlideLayout(s, th, ls, fs, fsc)
    IN <<Frame(th, "#000000", "#FFFFFF", fexp)>>
       \o (IF ~LessonIsCover(s) /\ ShowBackground(s)
           THEN BackgroundLayers(lay) ELSE <<>>)
       \o (IF LessonIsCover(s) THEN LessonRenderCoverSlide(s, c, th, lay, fexp)
           ELSE IF s.showImage THEN LessonRenderContentWithImage(s, c, lay, fexp)
           ELSE LessonRenderContentTextOnly(c))
       \o CenteredFooter(ssn)

\* the component the carousel style selects
SlideComponent(st, s, c, th, ssn, fexp, ls, fs, fsc) ==
    CASE st = "TWITTER" -> TwitterSlide(s, c, th, ssn, fexp, ls, fs, fsc)
      [] st = "STORYTELLER" -> StorytellerSlide(s, c, th, ssn, fexp, ls, fs, fsc)
      [] st = "LESSON" -> LessonSlide(s, c, th, ssn, fexp, ls, fs, fsc)

(***************************************************************************)
(* The text colours of a render pass: the colour renderMarkdown gives the  *)
(* headings, the body text, the bullet glyph and the item number, and the  *)
(* inline colour of the footer text (undefined where class names decide).  *)
(***************************************************************************)
\* theme === 'DARK' ? dark : light
ThemeColor(th, dark, light) == IF th = "DARK" THEN dark ELSE light

\* bgTextColor as LessonSlide's textColor tests it: bgTextColor || ...
TextColorOverrideAlways(s) ==
    IF Truthy(s.backgroundTextColor) THEN s.backgroundTextColor ELSE Undefined

\* showBackground && bgTextColor ? bgTextColor : undefined
TextColorOverride(s) ==
    IF ShowBackground(s) /\ Truthy(s.backgroundTextColor)
    THEN s.backgroundTextColor
    ELSE Undefined

\* override || themeColor
OverrideOr(override, themeColor) ==
    IF IsDefined(override) THEN Value(override) ELSE themeColor

\* TwitterSlide: hColor, textColor, bulletColor and numberColor of
\* renderMarkdown; the pagination takes the accent colour
TwitterTextColors(s, th, accent) ==
    LET o == TextColorOverride(s)
    IN [heading |-> OverrideOr(o, ThemeColor(th, "#FFFFFF", "#111827")),
        body |-> OverrideOr(o, ThemeColor(th, "#E5E7EB", "#1F2937")),
        bullet |-> OverrideOr(o, ThemeColor(th, "#6B7280", "#9CA3AF")),
        number |-> OverrideOr(o, ThemeColor(th, "#FFFFFF", "#111827")),
        footer |-> IF Truthy(accent) THEN accent ELSE Undefined]

\* StorytellerSlide: headingColor, textColor and bulletStyle of
\* renderMarkdown; the footer is coloured by class names
StorytellerTextColors(s, th, accent) ==
    LET o == TextColorOverride(s)
        bulletStyle ==
            IF Truthy(accent) THEN Value(accent)
            ELSE OverrideOr(o, ThemeColor(th, "#cbd5e1", "#475569"))
    IN [heading |-> OverrideOr(o, ThemeColor(th, "#FFFFFF", "#000000")),
        body |-> OverrideOr(o, ThemeColor(th, "#F3F4F6", "#111827")),
        bullet |-> bulletStyle,
        number |-> bulletStyle,
        footer |-> Undefined]

\* LessonSlide: renderMarkdown takes no override; the handle and the
\* pagination of the footer take bgTextColor || the theme colour
LessonTextColors(s, th, accent) ==
    LET bulletStyle ==
            IF Truthy(accent) THEN Value(accent)
            ELSE ThemeColor(th, "#cbd5e1", "#475569")
    IN [heading |-> ThemeColor(th, "#FFFFFF", "#000000"),
        body |-> ThemeColor(th, "#F3F4F6", "#111827"),
        bullet |-> bulletStyle,
        number |-> bulletStyle,
        footer |-> Some(OverrideOr(TextColorOverrideAlways(s),
                                   ThemeColor(th, "#FFFFFF", "#000000")))]

TextColors(st, s, th, accent) ==
    CASE st = "TWITTER" -> TwitterTextColors(s, th, accent)
      [] st = "STORYTELLER" -> StorytellerTextColors(s, th, accent)
      [] st = "LESSON" -> LessonTextColors(s, th, accent)

(***************************************************************************)
(* The composition specification: the parent re-renders the component of   *)
(* the current style with one input changed, or with a sample slide; every *)
(* render pass recomputes the effective values, the blocks and the element *)
(* tree from the props alone.                                              *)
(***************************************************************************)
\* the slide fields that decide which elements a template renders
CompositionFields ==
    {"type", "showImage", "imageUrl", "showBackgroundImage",
     "backgroundImageUrl", "overlayImage"}

\* the slide field that recolours the text over a background image
ColourFields == {"backgroundTextColor"}

\* the accent colours the component is given
AccentColors == {Undefined, Some("#EAB308")}

\* a content slide with text only
PlainSlide ==
    [f \in SlideFields \cup CompositionFields \cup ColourFields |->
        CASE f = "type" -> "CONTENT"
          [] f \in {"showImage", "showBackgroundImage"} -> FALSE
          [] OTHER -> Undefined]

\* the values a composed slide is given; "masonry" is a contentLayout no
\* template knows
CompositionValues(f) ==
    CASE f = "type" -> {"COVER", "CONTENT", "CTA"}
      [] f \in {"showImage", "showBackgroundImage"} -> BOOLEAN
      [] f = "imageUrl" -> {Undefined, Some("data:image")}
      [] f = "backgroundImageUrl" -> {Undefined, Some("data:background")}
      [] f = "overlayImage" -> {Undefined, Some(TRUE), Some(FALSE)}
      [] f = "contentLayout" ->
             {Undefined, Some("default"), Some("image-first"),
              Some("image-after-title"), Some("masonry")}
      [] f = "imageScale" ->
             {Undefined, Some(10), Some(90)}
      [] f = "imageCanvasOffset" -> {Undefined, Some(24)}
      [] f = "backgroundTextColor" -> {Undefined, Some("#FACC15")}

ComposedFields ==
    CompositionFields \cup ColourFields
        \cup {"contentLayout", "imageScale", "imageCanvasOffset"}

BodyContent == <<"B", "o", "d", "y">>

ComposedContents == {BodyContent, <<>>, HookContent, TitleBodyContent}

\* the slide of the end-to-end scenario: a cover with an image in overlay mode
CinematicCoverSlide ==
    [PlainSlide EXCEPT !["type"] = "COVER", !["showImage"] = TRUE,
                       !["imageUrl"] = Some("data:image"),
                       !["overlayImage"] = Some(TRUE),
                       !["imageScale"] = Some(45)]

SettingCount(s, c, th, ssn, fexp) ==
    Cardinality({f \in ComposedFields : s[f] # PlainSlide[f]})
    + (IF c # BodyContent THEN 1 ELSE 0)
    + (IF th # "LIGHT" THEN 1 ELSE 0)
    + (IF ~ssn THEN 1 ELSE 0)
    + (IF fexp THEN 1 ELSE 0)
    + (IF IsDefined(accentColor) THEN 1 ELSE 0)

\* one render pass of the component
Composed(st, s, c, th, ssn, fexp) ==
    /\ style' = st
    /\ slide' = s
    /\ content' = c
    /\ theme' = th
    /\ showSlideNumbers' = ssn
    /\ forExport' = fexp
    /\ resolved' = RenderLayout(st, s, th, layoutSettings, fontStyle, fontScale)
    /\ blocks' = renderMarkdown(st, c)
    /\ split' = splitContentByHeaders(c)
    /\ tree' = SlideComponent(st, s, c, th, ssn, fexp, layoutSettings,
                              fontStyle, fontScale)
    /\ colors' = TextColors(st, s, th, accentColor)
    /\ UNCHANGED <<layoutSettings, fontStyle, fontScale, inlineVars,
                   accentColor, serviceVars>>

\* a field of the slide is edited
EditSlide ==
    \E f \in ComposedFields \cap DOMAIN slide :
        \E v \in CompositionValues(f) \ {slide[f]} :
            /\ SettingCount([slide EXCEPT ![f] = v], content, theme,
                            showSlideNumbers, forExport) <= MaxSettings
            /\ Composed(style, [slide EXCEPT ![f] = v], content, theme,
                        showSlideNumbers, forExport)

\* the slide's content is edited
EditContent ==
    \E c \in ComposedContents \ {content} :
        /\ SettingCount(slide, c, theme, showSlideNumbers, forExport)
               <= MaxSettings
        /\ Composed(style, slide, c, theme, showSlideNumbers, forExport)

ToggleTheme ==
    \E th \in Themes \ {theme} :
        /\ SettingCount(slide, content, th, showSlideNumbers, forExport)
               <= MaxSettings
        /\ Composed(style, slide, content, th, showSlideNumbers, forExport)

ToggleSlideNumbers ==
    /\ SettingCount(slide, content, theme, ~showSlideNumbers, forExport)
           <= MaxSettings
    /\ Composed(style, slide, content, theme, ~showSlideNumbers, forExport)

\* the same slide rendered for the preview or for the export
ToggleForExport ==
    /\ SettingCount(slide, content, theme, showSlideNumbers, ~forExport)
           <= MaxSettings
    /\ Composed(style, slide, content, theme, showSlideNumbers, ~forExport)

\* the carousel style selects another component for the same props
SelectStyle ==
    \E st \in Styles \ {style} :
        Composed(st, slide, content, theme, showSlideNumbers, forExport)

\* the scenario slide is opened in the dark theme
OpenCoverSlide ==
    /\ slide # CinematicCoverSlide \/ content # HookContent \/ theme # "DARK"
    /\ Composed(style, CinematicCoverSlide, HookContent, "DARK",
                showSlideNumbers, forExport)

\* the parent passes another accent colour, or none
SetAccentColor ==
    \E a \in AccentColors \ {accentColor} :
        /\ IsDefined(a) =>
               SettingCount(slide, content, theme, showSlideNumbers,
                            forExport) < MaxSettings
        /\ accentColor' = a
        /\ colors' = TextColors(style, slide, theme, a)
        /\ UNCHANGED <<style, layoutVars, inlineVars, blockVars,
                       showSlideNumbers, forExport, tree, serviceVars>>

InitCompose ==
    /\ style = "TWITTER"
    /\ theme = "LIGHT"
    /\ slide = PlainSlide
    /\ layoutSettings = Undefined
    /\ fontStyle = Undefined
    /\ fontScale = Undefined
    /\ resolved = RenderLayout("TWITTER", PlainSlide, "LIGHT", Undefined,
                               Undefined, Undefined)
    /\ line = <<>>
    /\ runs = <<>>
    /\ content = BodyContent
    /\ blocks = renderMarkdown("TWITTER", BodyContent)
    /\ split = splitContentByHeaders(BodyContent)
    /\ showSlideNumbers = TRUE
    /\ forExport = FALSE
    /\ tree = SlideComponent("TWITTER", PlainSlide, BodyContent, "LIGHT", TRUE,
                             FALSE, Undefined, Undefined, Undefined)
    /\ accentColor = Undefined
    /\ colors = TextColors("TWITTER", PlainSlide, "LIGHT", Undefined)
    /\ ServicesIdle

NextCompose ==
    \/ EditSlide
    \/ EditContent
    \/ ToggleTheme
    \/ ToggleSlideNumbers
    \/ ToggleForExport
    \/ SelectStyle
    \/ OpenCoverSlide
    \/ SetAccentColor

SpecCompose == InitCompose /\ [][NextCompose]_vars

(***************************************************************************)
(* App, the onboarding: the handlers of the component and the              *)
(* continuations of its two asynchronous handlers, each an atomic step of  *)
(* the event loop.  A pending generateCarouselContent call is what         *)
(* isGenerating = TRUE stands for, a pending processDocument call what     *)
(* isProcessingDocument = TRUE stands for.                                 *)
(***************************************************************************)
\* enum CarouselStyle
CarouselStyle == {"TWITTER", "APPLE_NOTES", "STORYTELLER", "LESSON"}

\* type AppStep
AppStep ==
    {"FORMAT_SELECT", "ASPECT_RATIO_SELECT", "PROFILE_INPUT", "METHOD_SELECT",
     "AI_INPUT", "WORKSPACE"}

\* type AspectRatio
AspectRatio == {"1/1", "4/5", "9/16", "16/9"}

\* what is typed into the topic input: nothing, a blank, a topic
Topics == {<<>>, <<" ">>, <<"t", "o", "p", "i", "c">>}

\* the file the upload input is given: none, one of a type not supported,
\* one above MAX_SIZE, one that passes both validations
Files == {"none", "notes.docx", "huge.pdf", "notes.pdf"}

\* the UploadedDocument processDocument resolves with
ProcessedDocument == Some("notes.pdf")

\* the rest of the state an App step leaves alone
AppFrame ==
    UNCHANGED <<layoutVars, inlineVars, blockVars, composeVars, scrapeVars,
                exportVars>>

\* the format accepted whatever the style is
handleFormatSelectAnyStyle(selectedStyle) ==
    /\ step = "FORMAT_SELECT"
    /\ style' = selectedStyle
    /\ step' = "ASPECT_RATIO_SELECT"
    /\ last' = <<"handleFormatSelect", selectedStyle>>
    /\ UNCHANGED <<aspectRatio, slides, aiTopic, isGenerating,
                   uploadedDocument, isProcessingDocument, documentError,
                   alerted, entered>>
    /\ AppFrame

handleFormatSelect(selectedStyle) ==
    /\ step = "FORMAT_SELECT"
    /\ IF selectedStyle \in {"TWITTER", "STORYTELLER", "LESSON"}
       THEN /\ style' = selectedStyle
            /\ step' = "ASPECT_RATIO_SELECT"
            /\ UNCHANGED alerted
       ELSE /\ alerted' = "Coming soon!"
            /\ UNCHANGED <<style, step>>
    /\ last' = <<"handleFormatSelect", selectedStyle>>
    /\ UNCHANGED <<aspectRatio, slides, aiTopic, isGenerating,
                   uploadedDocument, isProcessingDocument, documentError,
                   entered>>
    /\ AppFrame

FormatSelected == \E selectedStyle \in CarouselStyle : handleFormatSelect(selectedStyle)

handleAspectRatioSelect(ratio) ==
    /\ step = "ASPECT_RATIO_SELECT"
    /\ aspectRatio' = ratio
    /\ step' = "PROFILE_INPUT"
    /\ last' = <<"handleAspectRatioSelect", ratio>>
    /\ UNCHANGED <<style, slides, aiTopic, isGenerating, uploadedDocument,
                   isProcessingDocument, documentError, alerted, entered>>
    /\ AppFrame

AspectRatioSelected == \E ratio \in AspectRatio : handleAspectRatioSelect(ratio)

handleProfileSubmit ==
    /\ step = "PROFILE_INPUT"
    /\ step' = "METHOD_SELECT"
    /\ last' = <<"handleProfileSubmit">>
    /\ UNCHANGED <<style, aspectRatio, slides, aiTopic, isGenerating,
                   uploadedDocument, isProcessingDocument, documentError,
                   alerted, entered>>
    /\ AppFrame

\* Back leading from AI_INPUT and from the workspace to the profile step
BackTargetSkippingMethod(s) ==
    CASE s = "ASPECT_RATIO_SELECT" -> "FORMAT_SELECT"
      [] s = "PROFILE_INPUT" -> "ASPECT_RATIO_SELECT"
      [] OTHER -> "PROFILE_INPUT"

\* the step a Back button of the step shown leads to
BackTarget(s) ==
    CASE s = "ASPECT_RATIO_SELECT" -> "FORMAT_SELECT"
      [] s = "PROFILE_INPUT" -> "ASPECT_RATIO_SELECT"
      [] s = "METHOD_SELECT" -> "PROFILE_INPUT"
      [] s = "AI_INPUT" -> "METHOD_SELECT"
      [] s = "WORKSPACE" -> "METHOD_SELECT"

\* a Back button is clicked: the one of AI_INPUT is rendered only while no
\* generation is pending, the one of the workspace is its onBack
Back ==
    /\ step # "FORMAT_SELECT"
    /\ step = "AI_INPUT" => ~isGenerating
    /\ step' = BackTarget(step)
    /\ last' = <<"back", step>>
    /\ UNCHANGED <<style, aspectRatio, slides, aiTopic, isGenerating,
                   uploadedDocument, isProcessingDocument, documentError,
                   alerted, entered>>
    /\ AppFrame

\* the AI card of METHOD_SELECT is clicked
SelectAiMethod ==
    /\ step = "METHOD_SELECT"
    /\ step' = "AI_INPUT"
    /\ last' = <<"selectAi">>
    /\ UNCHANGED <<style, aspectRatio, slides, aiTopic, isGenerating,
                   uploadedDocument, isProcessingDocument, documentError,
                   alerted, entered>>
    /\ AppFrame

handleManualCreate ==
    /\ step = "METHOD_SELECT"
    /\ slides' = "manual"
    /\ step' = "WORKSPACE"
    /\ entered' = "manual"
    /\ last' = <<"handleManualCreate">>
    /\ UNCHANGED <<style, aspectRatio, aiTopic, isGenerating,
                   uploadedDocument, isProcessingDocument, documentError,
                   alerted>>
    /\ AppFrame

\* onChange of the topic input
SetAiTopic ==
    /\ step = "AI_INPUT"
    /\ \E t \in Topics \ {aiTopic} : aiTopic' = t
    /\ last' = <<"setAiTopic">>
    /\ UNCHANGED <<style, step, aspectRatio, slides, isGenerating,
                   uploadedDocument, isProcessingDocument, documentError,
                   alerted, entered>>
    /\ AppFrame

\* handleDocumentUpload up to its await; the input is rendered when no
\* document is held and none is being processed
handleDocumentUpload(file) ==
    /\ step = "AI_INPUT"
    /\ uploadedDocument = Null
    /\ ~isProcessingDocument
    /\ CASE file = "none" ->
                UNCHANGED <<isProcessingDocument, documentError>>
         [] file = "notes.docx" ->
                /\ documentError'
                       = Some("Unsupported file type. Use PDF, TXT, or MD.")
                /\ UNCHANGED isProcessingDocument
         [] file = "huge.pdf" ->
                /\ documentError'
                       = Some("File too large. Maximum size is 20MB.")
                /\ UNCHANGED isProcessingDocument
         [] OTHER ->
                /\ isProcessingDocument' = TRUE
                /\ documentError' = Null
    /\ last' = <<"handleDocumentUpload", file>>
    /\ UNCHANGED <<style, step, aspectRatio, slides, aiTopic, isGenerating,
                   uploadedDocument, alerted, entered>>
    /\ AppFrame

DocumentChosen == \E file \in Files : handleDocumentUpload(file)

\* handleDocumentUpload after its await, processDocument having resolved
ProcessDocumentResolves ==
    /\ isProcessingDocument
    /\ uploadedDocument' = ProcessedDocument
    /\ isProcessingDocument' = FALSE
    /\ last' = <<"handleDocumentUpload", "resolved">>
    /\ UNCHANGED <<style, step, aspectRatio, slides, aiTopic, isGenerating,
                   documentError, alerted, entered>>
    /\ AppFrame

\* handleDocumentUpload after its await, processDocument having rejected
ProcessDocumentRejects ==
    /\ isProcessingDocument
    /\ documentError'
           = Some("Failed to process document. Please try again.")
    /\ isProcessingDocument' = FALSE
    /\ last' = <<"handleDocumentUpload", "rejected">>
    /\ UNCHANGED <<style, step, aspectRatio, slides, aiTopic, isGenerating,
                   uploadedDocument, alerted, entered>>
    /\ AppFrame

handleRemoveDocument ==
    /\ step = "AI_INPUT"
    /\ uploadedDocument # Null
    /\ uploadedDocument' = Null
    /\ documentError' = Null
    /\ last' = <<"handleRemoveDocument">>
    /\ UNCHANGED <<style, step, aspectRatio, slides, aiTopic, isGenerating,
                   isProcessingDocument, alerted, entered>>
    /\ AppFrame

\* !aiTopic.trim() && !uploadedDocument
NothingToGenerateFrom == IsBlankText(aiTopic) /\ uploadedDocument = Null

\* handleAiGenerate up to its await; no second call is made while one is
\* pending, the button being disabled by isGenerating
handleAiGenerate ==
    /\ step = "AI_INPUT"
    /\ ~isGenerating
    /\ IF NothingToGenerateFrom
       THEN /\ last' = <<"handleAiGenerate", "returned">>
            /\ UNCHANGED isGenerating
       ELSE /\ last' = <<"handleAiGenerate", "awaiting">>
            /\ isGenerating' = TRUE
    /\ UNCHANGED <<style, step, aspectRatio, slides, aiTopic,
                   uploadedDocument, isProcessingDocument, documentError,
                   alerted, entered>>
    /\ AppFrame

\* handleAiGenerate after its await, generateCarouselContent having resolved
GenerationResolves ==
    /\ isGenerating
    /\ slides' = "generated"
    /\ uploadedDocument' = Null
    /\ step' = "WORKSPACE"
    /\ isGenerating' = FALSE
    /\ entered' = "ai"
    /\ last' = <<"handleAiGenerate", "resolved">>
    /\ UNCHANGED <<style, aspectRatio, aiTopic, isProcessingDocument,
                   documentError, alerted>>
    /\ AppFrame

\* the catch block reached with the document cleared as on success
GenerationRejectsClearingDocument ==
    /\ isGenerating
    /\ alerted'
           = "AI Generation failed. Please check your API Key and try again."
    /\ uploadedDocument' = Null
    /\ isGenerating' = FALSE
    /\ last' = <<"handleAiGenerate", "rejected">>
    /\ UNCHANGED <<style, step, aspectRatio, slides, aiTopic,
                   isProcessingDocument, documentError, entered>>
    /\ AppFrame

\* handleAiGenerate after its await, generateCarouselContent having rejected
GenerationRejects ==
    /\ isGenerating
    /\ alerted'
           = "AI Generation failed. Please check your API Key and try again."
    /\ isGenerating' = FALSE
    /\ last' = <<"handleAiGenerate", "rejected">>
    /\ UNCHANGED <<style, step, aspectRatio, slides, aiTopic,
                   uploadedDocument, isProcessingDocument, documentError,
                   entered>>
    /\ AppFrame

\* the workspace calls onUpdateSlides, which is setSlides
OnUpdateSlides ==
    /\ step = "WORKSPACE"
    /\ slides # "edited"
    /\ slides' = "edited"
    /\ last' = <<"onUpdateSlides">>
    /\ UNCHANGED <<style, step, aspectRatio, aiTopic, isGenerating,
                   uploadedDocument, isProcessingDocument, documentError,
                   alerted, entered>>
    /\ AppFrame

\* the workspace calls onStyleChange, which is setStyle, with one of the
\* styles a component exists for
OnStyleChange ==
    /\ step = "WORKSPACE"
    /\ \E st \in Styles \ {style} : style' = st
    /\ last' = <<"onStyleChange">>
    /\ UNCHANGED <<step, aspectRatio, slides, aiTopic, isGenerating,
                   uploadedDocument, isProcessingDocument, documentError,
                   alerted, entered>>
    /\ AppFrame

InitApp ==
    /\ style = "TWITTER"
    /\ theme = "LIGHT"
    /\ slide = PlainSlide
    /\ layoutSettings = Undefined
    /\ fontStyle = Undefined
    /\ fontScale = Undefined
    /\ resolved = RenderLayout("TWITTER", PlainSlide, "LIGHT", Undefined,
                               Undefined, Undefined)
    /\ line = <<>>
    /\ runs = <<>>
    /\ content = <<>>
    /\ blocks = <<>>
    /\ split = [titleLines |-> <<>>, bodyLines |-> <<>>]
    /\ showSlideNumbers = TRUE
    /\ forExport = FALSE
    /\ tree = <<>>
    /\ accentColor = Undefined
    /\ colors = NoColors
    /\ ServicesIdle

NextApp ==
    \/ FormatSelected
    \/ AspectRatioSelected
    \/ handleProfileSubmit
    \/ Back
    \/ SelectAiMethod
    \/ handleManualCreate
    \/ SetAiTopic
    \/ DocumentChosen
    \/ ProcessDocumentResolves
    \/ ProcessDocumentRejects
    \/ handleRemoveDocument
    \/ handleAiGenerate
    \/ GenerationResolves
    \/ GenerationRejects
    \/ OnUpdateSlides
    \/ OnStyleChange

SpecApp == InitApp /\ [][NextApp]_vars

(***************************************************************************)
(* scrapeInstagramPost of instagramService: one call, a step for each      *)
(* request that returns.                                                   *)
(***************************************************************************)
maxAttempts == 60

\* the status a run's data can hold; undefined when the response has none
RunStatuses ==
    {Undefined, Some("READY"), Some("RUNNING"), Some("SUCCEEDED"),
     Some("FAILED"), Some("ABORTED")}

\* what the start request can answer: not ok with a status code, ok without
\* a run id, ok with a run id
RunResponses == {"401", "429", "500", "no id", "started"}

\* what the dataset request can answer: null, an empty array, an array of
\* posts, an object that is no array
DatasetResponses == {"null", "[]", "[post]", "[post, post]", "{error}"}

\* items.length, undefined for an object that is no array
ItemsLength(r) ==
    CASE r = "[]" -> Some(0)
      [] r = "[post]" -> Some(1)
      [] r = "[post, post]" -> Some(2)
      [] OTHER -> Undefined

\* an error thrown outside the try block
Thrown(message) == [kind |-> "error", message |-> message, wrapped |-> FALSE]

\* the catch block: the two key errors are rethrown, every other error is
\* thrown again with the prefix 'Failed to scrape Instagram: '
Caught(message) ==
    [kind |-> "error", message |-> message,
     wrapped |-> message \notin
         {"Invalid Apify API key. Please check your token.",
          "Apify rate limit reached. Please try again later."}]

\* the call up to the start request
StartScrape ==
    /\ scrapePc = "idle"
    /\ \E token \in BOOLEAN :
           IF token
           THEN scrapePc' = "starting" /\ UNCHANGED outcome
           ELSE /\ scrapePc' = "done"
                /\ outcome' = Thrown(
                       "Apify API key is required for Instagram scraping")
    /\ UNCHANGED <<runStatus, attempts, items>>
    /\ UNCHANGED <<style, layoutVars, inlineVars, blockVars, composeVars,
                   appVars, exportVars>>

\* the start request returns
RunResponds ==
    /\ scrapePc = "starting"
    /\ \E r \in RunResponses, st \in RunStatuses :
           CASE r = "401" ->
                    /\ outcome' = Caught(
                           "Invalid Apify API key. Please check your token.")
                    /\ scrapePc' = "done"
                    /\ UNCHANGED runStatus
             [] r = "429" ->
                    /\ outcome' = Caught(
                           "Apify rate limit reached. Please try again later.")
                    /\ scrapePc' = "done"
                    /\ UNCHANGED runStatus
             [] r = "500" ->
                    /\ outcome' = Caught("Apify API error: 500")
                    /\ scrapePc' = "done"
                    /\ UNCHANGED runStatus
             [] r = "no id" ->
                    /\ outcome' = Caught("Failed to start Apify actor run")
                    /\ scrapePc' = "done"
                    /\ UNCHANGED runStatus
             [] OTHER ->
                    /\ runStatus' = st
                    /\ scrapePc' = "loop"
                    /\ UNCHANGED outcome
    /\ attempts' = 0
    /\ UNCHANGED items
    /\ UNCHANGED <<style, layoutVars, inlineVars, blockVars, composeVars,
                   appVars, exportVars>>

\* the loop entered once more after the last attempt
LoopContinuesOnceMore(status, n) ==
    /\ status # Some("SUCCEEDED")
    /\ status # Some("FAILED")
    /\ n <= maxAttempts

\* the condition of the while loop
LoopContinues(status, n) ==
    /\ status # Some("SUCCEEDED")
    /\ status # Some("FAILED")
    /\ n < maxAttempts

\* the body of the loop: the pause, then the status request returns
PollStatus ==
    /\ scrapePc = "loop"
    /\ LoopContinues(runStatus, attempts)
    /\ \E st \in RunStatuses : runStatus' = st
    /\ attempts' = attempts + 1
    /\ UNCHANGED <<scrapePc, items, outcome>>
    /\ UNCHANGED <<style, layoutVars, inlineVars, blockVars, composeVars,
                   appVars, exportVars>>

\* the loop is left: the two tests after it, then the dataset request
LeaveLoop ==
    /\ scrapePc = "loop"
    /\ ~LoopContinues(runStatus, attempts)
    /\ IF runStatus = Some("FAILED")
       THEN /\ outcome' = Caught("Instagram scraping failed. The post may be private or unavailable.")
            /\ scrapePc' = "done"
       ELSE IF runStatus # Some("SUCCEEDED")
       THEN /\ outcome' = Caught("Instagram scraping timed out. Please try again.")
            /\ scrapePc' = "done"
       ELSE /\ scrapePc' = "fetching"
            /\ UNCHANGED outcome
    /\ UNCHANGED <<runStatus, attempts, items>>
    /\ UNCHANGED <<style, layoutVars, inlineVars, blockVars, composeVars,
                   appVars, exportVars>>

\* the dataset request returns: !items || items.length === 0 throws, an
\* object that is no array has no items[0] and reading post.type throws
DatasetResponds ==
    /\ scrapePc = "fetching"
    /\ \E r \in DatasetResponses :
           /\ items' = r
           /\ outcome' =
                  IF r = "null" \/ ItemsLength(r) = Some(0)
                  THEN Caught("No Instagram data found. The post may be private or unavailable.")
                  ELSE IF ItemsLength(r) = Undefined
                  THEN Caught("TypeError")
                  ELSE [kind |-> "data", message |-> "", wrapped |-> FALSE]
    /\ scrapePc' = "done"
    /\ UNCHANGED <<runStatus, attempts>>
    /\ UNCHANGED <<style, layoutVars, inlineVars, blockVars, composeVars,
                   appVars, exportVars>>

InitScrape == InitApp

NextScrape ==
    \/ StartScrape
    \/ RunResponds
    \/ PollStatus
    \/ LeaveLoop
    \/ DatasetResponds

SpecScrape == InitScrape /\ [][NextScrape]_vars

\* every request returns and the call goes on
SpecScrapeFair == SpecScrape /\ WF_vars(NextScrape)

(***************************************************************************)
(* The render/export boundary: the images the displayed tree references    *)
(* load or fail one by one, and an export requested for the slide captures *)
(* the tree once they have settled.                                        *)
(***************************************************************************)
\* the images an element tree references: the avatar of a header or footer,
\* the illustration when it is no placeholder, the background image
ReferencedImages(t) ==
    {i \in ImageIds :
        \E k \in DOMAIN t :
            CASE i = "avatar" -> "avatar" \in t[k].parts
              [] i = "illustration" ->
                     t[k].kind = "illustration" /\ ~t[k].placeholder
              [] i = "background" -> t[k].kind = "background"}

\* the slides shown before an export
ExportSlides ==
    {PlainSlide,
     [PlainSlide EXCEPT !["showImage"] = TRUE,
                        !["imageUrl"] = Some("data:image")],
     [PlainSlide EXCEPT !["showBackgroundImage"] = TRUE,
                        !["backgroundImageUrl"] = Some("data:background")],
     [PlainSlide EXCEPT !["showImage"] = TRUE,
                        !["imageUrl"] = Some("data:image"),
                        !["showBackgroundImage"] = TRUE,
                        !["backgroundImageUrl"] = Some("data:background")]}

\* every image of the tree starts loading
LoadingStarted(t) ==
    [i \in ImageIds |->
        IF i \in ReferencedImages(t) THEN "pending" ELSE "unreferenced"]

\* a slide is displayed in the preview
ShowSlide ==
    /\ exportPhase = "idle"
    /\ \E st \in Styles, s \in ExportSlides :
           /\ st # style \/ s # slide
           /\ style' = st
           /\ slide' = s
           /\ resolved' = RenderLayout(st, s, theme, layoutSettings, fontStyle,
                                       fontScale)
           /\ blocks' = renderMarkdown(st, content)
           /\ tree' = SlideComponent(st, s, content, theme, showSlideNumbers,
                                     forExport, layoutSettings, fontStyle,
                                     fontScale)
           /\ colors' = TextColors(st, s, theme, accentColor)
           /\ imageState' = LoadingStarted(tree')
    /\ UNCHANGED <<theme, layoutSettings, fontStyle, fontScale, inlineVars,
                   content, split, showSlideNumbers, forExport, accentColor,
                   exportPhase, appVars, scrapeVars>>

\* what an image's loading ends in
ImageSettles(i, state) ==
    /\ imageState[i] = "pending"
    /\ imageState' = [imageState EXCEPT ![i] = state]
    /\ UNCHANGED <<style, layoutVars, inlineVars, blockVars, composeVars,
                   exportPhase, appVars, scrapeVars>>

ImageLoads == \E i \in ImageIds : ImageSettles(i, "loaded")

ImageFails == \E i \in ImageIds : ImageSettles(i, "error")

\* the user asks for the export of the slide
RequestExport ==
    /\ exportPhase = "idle"
    /\ exportPhase' = "waiting"
    /\ UNCHANGED <<style, layoutVars, inlineVars, blockVars, composeVars,
                   imageState, appVars, scrapeVars>>

\* the capture made as soon as it is asked for
CaptureReadyAtOnce(t, states) == TRUE

\* the condition the boundary awaits before a capture
CaptureReady(t, states) ==
    \A i \in ReferencedImages(t) : states[i] \in {"loaded", "error"}

\* the tree is captured
Capture ==
    /\ exportPhase = "waiting"
    /\ CaptureReady(tree, imageState)
    /\ exportPhase' = "captured"
    /\ UNCHANGED <<style, layoutVars, inlineVars, blockVars, composeVars,
                   imageState, appVars, scrapeVars>>

\* the export is over
FinishExport ==
    /\ exportPhase = "captured"
    /\ exportPhase' = "idle"
    /\ UNCHANGED <<style, layoutVars, inlineVars, blockVars, composeVars,
                   imageState, appVars, scrapeVars>>

InitExport ==
    /\ style = "TWITTER"
    /\ theme = "LIGHT"
    /\ slide = PlainSlide
    /\ layoutSettings = Undefined
    /\ fontStyle = Undefined
    /\ fontScale = Undefined
    /\ resolved = RenderLayout("TWITTER", PlainSlide, "LIGHT", Undefined,
                               Undefined, Undefined)
    /\ line = <<>>
    /\ runs = <<>>
    /\ content = BodyContent
    /\ blocks = renderMarkdown("TWITTER", BodyContent)
    /\ split = splitContentByHeaders(BodyContent)
    /\ showSlideNumbers = TRUE
    /\ forExport = FALSE
    /\ tree = SlideComponent("TWITTER", PlainSlide, BodyContent, "LIGHT", TRUE,
                             FALSE, Undefined, Undefined, Undefined)
    /\ accentColor = Undefined
    /\ colors = TextColors("TWITTER", PlainSlide, "LIGHT", Undefined)
    /\ AppConstructed
    /\ ScrapeIdle
    /\ exportPhase = "idle"
    /\ imageState
           = LoadingStarted(SlideComponent("TWITTER", PlainSlide, BodyContent,
                                           "LIGHT", TRUE, FALSE, Undefined,
                                           Undefined, Undefined))

NextExport ==
    \/ ShowSlide
    \/ ImageLoads
    \/ ImageFails
    \/ RequestExport
    \/ Capture
    \/ FinishExport

SpecExport == InitExport /\ [][NextExport]_vars

(***************************************************************************)
(* Claims about the element tree.                                          *)
(***************************************************************************)
\* the five layers of a slide, bottom to top; 0 for an element that is none
\* of them (the frame, the header, a gradient)
LayerRank(kind) ==
    CASE kind = "background" -> 1
      [] kind = "overlay" -> 2
      [] kind = "illustration" -> 3
      [] kind = "text" -> 4
      [] kind = "footer" -> 5
      [] OTHER -> 0

\* the z-index an element is painted at: 0 when it has none
StackLevel(e) == IF IsDefined(e.z) THEN Value(e.z) ELSE 0

\* element j of the tree is painted above element i: a higher z-index, or
\* the same z-index and a later place in the document
PaintedAbove(t, j, i) ==
    \/ StackLevel(t[j]) > StackLevel(t[i])
    \/ StackLevel(t[j]) = StackLevel(t[i]) /\ j > i

KindsAt(t, kind) == {i \in DOMAIN t : t[i].kind = kind}

\* C13: in every template the layers are stacked background < colour overlay
\* < illustration < text < footer: a layer of a lower rank is never painted
\* above one of a higher rank, the footer is the topmost element, the
\* background image the bottommost, and the colour overlay exists exactly
\* when the background does and is painted immediately above it.
C13_LayersOrdered ==
    /\ \A i, j \in DOMAIN tree :
           (/\ LayerRank(tree[i].kind) > 0
            /\ LayerRank(tree[i].kind) < LayerRank(tree[j].kind))
               => PaintedAbove(tree, j, i)
    /\ \A i \in KindsAt(tree, "footer") :
           \A k \in DOMAIN tree \ {i} :
               tree[k].kind # "frame" => PaintedAbove(tree, i, k)
    /\ \A i \in KindsAt(tree, "background") :
           \A k \in DOMAIN tree \ {i} :
               tree[k].kind # "frame" => PaintedAbove(tree, k, i)
    /\ (KindsAt(tree, "overlay") # {}) <=> (KindsAt(tree, "background") # {})
    /\ \A i \in KindsAt(tree, "background") :
           \A j \in KindsAt(tree, "overlay") :
               /\ PaintedAbove(tree, j, i)
               /\ ~\E k \in DOMAIN tree :
                      PaintedAbove(tree, k, i) /\ PaintedAbove(tree, j, k)

IllustrationsOf(t) == KindsAt(t, "illustration")

\* C14: in every template a slide with showImage = true and no imageUrl
\* renders an illustration layer that is present, has the non-zero height
\* the image would have had and shows the generating indicator.
C14_PlaceholderShown ==
    (slide.showImage /\ ~Truthy(slide.imageUrl)) =>
        \E i \in IllustrationsOf(tree) :
            /\ tree[i].placeholder
            /\ IsDefined(tree[i].height)
            /\ Value(tree[i].height) > 0
            /\ tree[i].height = resolved.imageScale

\* the tree with the transition styling of every element erased
WithoutTransitions(t) == [i \in DOMAIN t |-> [t[i] EXCEPT !.transition = FALSE]]

\* the tree of the same props rendered with another forExport
ExportPass(fexp) ==
    SlideComponent(style, slide, content, theme, showSlideNumbers, fexp,
                   layoutSettings, fontStyle, fontScale)

\* C15: the export flag does not influence layout: the pass for the export
\* and the pass for the preview of the same props give the same elements in
\* the same order with the same geometry, colours, z-order and blocks (font
\* sizes included); only the transition styling differs.
C15_ExportKeepsLayout ==
    /\ tree = ExportPass(forExport)
    /\ WithoutTransitions(ExportPass(TRUE)) = WithoutTransitions(ExportPass(FALSE))
    /\ RenderLayout(style, slide, theme, layoutSettings, fontStyle, fontScale)
           = resolved

\* an export pass of a slide with an image, whose preview pass differs in
\* its transition styling
C15_Witness ==
    /\ forExport
    /\ IllustrationsOf(tree) # {}
    /\ ExportPass(FALSE) # tree

\* the content region of the feed-text template: the text and illustration
\* elements of the content container, in document order, each as
\* <<kind, section>>
ContentRegion(t) ==
    SelectSeq(t, LAMBDA el : el.parent = "content"
                             /\ el.kind \in {"text", "illustration"})

RegionShape(t) ==
    [i \in DOMAIN ContentRegion(t) |->
        <<ContentRegion(t)[i].kind, ContentRegion(t)[i].section>>]

\* the pieces a content region is made of, for the current props
ImagePiece == IF slide.showImage THEN << <<"illustration", "">> >> ELSE <<>>
AllContentPiece == << <<"text", "all">> >>
TitlePiece ==
    IF IsBlankText(split.titleLines) THEN <<>> ELSE << <<"text", "title">> >>
BodyPiece ==
    IF IsBlankText(split.bodyLines) THEN <<>> ELSE << <<"text", "body">> >>

\* the order the content-layout selector fixes, and the text each text
\* element resolves
SelectorFixesOrder ==
    /\ RegionShape(tree) =
           CASE slide.contentLayout = Some("image-first") ->
                    ImagePiece \o AllContentPiece
             [] slide.contentLayout = Some("image-after-title") ->
                    TitlePiece \o ImagePiece \o BodyPiece
             [] OTHER -> AllContentPiece \o ImagePiece
    /\ \A i \in DOMAIN ContentRegion(tree) :
           LET el == ContentRegion(tree)[i]
           IN el.kind = "text" =>
                  el.blocks = TwitterRenderMarkdown(
                                  CASE el.section = "title" -> split.titleLines
                                    [] el.section = "body" -> split.bodyLines
                                    [] OTHER -> content)

\* C16 as stated: in the feed-text template the selector fixes the order of
\* the content region (image-first: image, all content; image-after-title:
\* title, image, body; default, absent or unrecognized: all content, image)
\* and no selector value leaves the content region empty.
C16_SelectorNeverEmpties ==
    style = "TWITTER" =>
        /\ SelectorFixesOrder
        /\ ContentRegion(tree) # <<>>

\* C16 amended: in the feed-text template the selector fixes the order of
\* the content region (image-first: image, all content; image-after-title:
\* title if non-blank, image, body if non-blank; default, absent or
\* unrecognized: all content, image); the content region is empty only
\* under image-after-title with blank content and no image.
C16_SelectorFixesOrder ==
    style = "TWITTER" =>
        /\ SelectorFixesOrder
        /\ ContentRegion(tree) = <<>> <=>
               /\ slide.contentLayout = Some("image-after-title")
               /\ IsBlankText(content)
               /\ ~slide.showImage

\* a title, an image and a body laid out by image-after-title
C16_Witness ==
    /\ style = "TWITTER"
    /\ slide.contentLayout = Some("image-after-title")
    /\ RegionShape(tree) =
           << <<"text", "title">>, <<"illustration", "">>, <<"text", "body">> >>

\* the text element of the cinematic-image template
StorytellerTextOf(t) == t[CHOOSE i \in KindsAt(t, "text") : TRUE]

\* C17: in the cinematic-image template overlay and split are never both
\* active; with showImage exactly one is, overlay iff overlayImage is not
\* false (an absent flag means overlay); without showImage neither is and
\* the text region takes the full height.
C17_OverlayXorSplit ==
    style = "STORYTELLER" =>
        LET overlay == StorytellerIsOverlay(slide)
            splitMode == StorytellerShowSplit(slide)
            text == StorytellerTextOf(tree)
        IN /\ ~(overlay /\ splitMode)
           /\ slide.showImage =>
                  /\ overlay \/ splitMode
                  /\ overlay <=> slide.overlayImage # Some(FALSE)
           /\ ~slide.showImage =>
                  /\ ~overlay /\ ~splitMode
                  /\ text.height = Some(100)
                  /\ IllustrationsOf(tree) = {}
           \* what the two modes show in the tree: the split text region is
           \* what the image leaves, the overlay text region is the full
           \* frame, and at most one of the two illustrations is rendered
           /\ splitMode <=> text.height = Some(100 - Value(resolved.imageScale))
           /\ overlay => text.height = Some(100)
           /\ Cardinality(IllustrationsOf(tree)) <= 1
           /\ Cardinality(KindsAt(tree, "gradient")) =
                  (IF overlay /\ Truthy(slide.imageUrl) THEN 1 ELSE 0)

\* an image whose overlay flag is absent, rendered as an overlay
C17_Witness ==
    /\ style = "STORYTELLER"
    /\ slide.showImage
    /\ slide.overlayImage = Undefined
    /\ Truthy(slide.imageUrl)
    /\ KindsAt(tree, "gradient") # {}

\* C18: in the lesson template a non-cover slide with showImage = true has
\* exactly one image region, directly after the title block and before the
\* body block: title if non-blank, image, body if non-blank, whatever the
\* content is.
C18_ImageAfterTitle ==
    (style = "LESSON" /\ ~LessonIsCover(slide) /\ slide.showImage) =>
        /\ RegionShape(tree) =
               TitlePiece \o << <<"illustration", "">> >> \o BodyPiece
        /\ Cardinality(IllustrationsOf(tree)) = 1
        /\ \A i \in DOMAIN ContentRegion(tree) :
               LET el == ContentRegion(tree)[i]
               IN /\ el.section = "title" =>
                         el.blocks = LessonRenderMarkdown(split.titleLines)
                  /\ el.section = "body" =>
                         el.blocks = LessonRenderMarkdown(split.bodyLines)

\* a call-to-action slide with a title, an image and a body
C18_Witness ==
    /\ style = "LESSON"
    /\ slide.type = "CTA"
    /\ slide.showImage
    /\ RegionShape(tree) =
           << <<"text", "title">>, <<"illustration", "">>, <<"text", "body">> >>

\* the tree of the same props for a slide of another role
RolePass(role) ==
    SlideComponent(style, [slide EXCEPT !["type"] = role], content, theme,
                   showSlideNumbers, forExport, layoutSettings, fontStyle,
                   fontScale)

SlideTypes == CompositionValues("type")

\* C19: in the feed-text and cinematic-image templates two slides that
\* differ only in role (cover, content, call-to-action) produce identical
\* element trees.
C19_RoleOnlyInLesson ==
    style \in {"TWITTER", "STORYTELLER"} =>
        \A role \in SlideTypes : RolePass(role) = tree

\* a cover with an image in the cinematic-image template, and the lesson
\* template rendering the same props differently for another role
C19_Witness ==
    /\ style = "STORYTELLER"
    /\ slide.type = "COVER"
    /\ slide.showImage
    /\ Truthy(slide.imageUrl)
    /\ RolePass("CONTENT") = tree
    /\ LessonSlide(slide, content, theme, showSlideNumbers, forExport,
                   layoutSettings, fontStyle, fontScale)
           # LessonSlide([slide EXCEPT !["type"] = "CONTENT"], content, theme,
                         showSlideNumbers, forExport, layoutSettings,
                         fontStyle, fontScale)

\* what a block shows: its kind and the text of its runs
BlockShows(b, kind, text) ==
    /\ b.kind = kind
    /\ b.children = << Run("text", text) >>

\* C20: a cover slide in the cinematic-image template in overlay mode with
\* an image, imageScale = 45, the content "# Hook\nBody line" and the dark
\* theme gives a tree with an illustration 45% of the frame high, a
\* gradient anchored at the illustration's bottom edge, a text layer
\* holding the heading-1 "Hook" followed by the paragraph "Body line", and
\* a footer centered at the bottom with avatar and handle.
C20_CinematicCover ==
    (/\ style = "STORYTELLER"
     /\ slide = CinematicCoverSlide
     /\ content = HookContent
     /\ theme = "DARK") =>
        /\ \E i \in IllustrationsOf(tree) :
               /\ tree[i].height = Some(45)
               /\ IllustrationsOf(tree) = {i}
               /\ \E g \in KindsAt(tree, "gradient") :
                      /\ KindsAt(tree, "gradient") = {g}
                      /\ tree[g].parent = "illustration"
                      /\ tree[g].anchor = <<"bottom", 0>>
                      /\ g = i + 1
        /\ \E k \in KindsAt(tree, "text") :
               /\ KindsAt(tree, "text") = {k}
               /\ Len(tree[k].blocks) = 2
               /\ BlockShows(tree[k].blocks[1], "h1", <<"H", "o", "o", "k">>)
               /\ BlockShows(tree[k].blocks[2], "p",
                             <<"B", "o", "d", "y", " ", "l", "i", "n", "e">>)
        /\ \E f \in KindsAt(tree, "footer") :
               /\ KindsAt(tree, "footer") = {f}
               /\ tree[f].align = "center"
               /\ tree[f].anchor = <<"bottom", 0>>
               /\ {"avatar", "handle"} \subseteq tree[f].parts
               /\ \A k \in DOMAIN tree \ {f} : PaintedAbove(tree, f, k)
        /\ tree[1].kind = "frame" /\ tree[1].color = "#0a0a0a"

\* the scenario slide rendered by the cinematic-image template
C20_Witness ==
    /\ style = "STORYTELLER"
    /\ slide = CinematicCoverSlide
    /\ content = HookContent
    /\ theme = "DARK"
    /\ Len(tree) = 5

(***************************************************************************)
(* Claims about the title run and the list items.                          *)
(***************************************************************************)
\* C23: every line splitContentByHeaders places in the title run is
\* classified by renderMarkdown as h1, h2 or spacer, lines with leading
\* whitespace included.
C23_TitleRunIsHeadings ==
    LET titleBlocks == renderMarkdown(style, split.titleLines)
    IN \A i \in 1..Len(titleBlocks) :
           titleBlocks[i].kind \in {"h1", "h2", "spacer"}

\* C24: the text of a bullet never contains its list marker: for every line
\* whose trimmed form starts with "- ", the text handed to the inline parser
\* is the trimmed line with exactly that "- " removed.
C24_BulletTextWithoutMarker ==
    LET lines == SplitLines(content)
    IN \A i \in 1..Len(lines) :
           StartsWith(Trim(lines[i]), <<"-", " ">>) =>
               /\ blocks[i].kind = "bullet"
               /\ blocks[i].text = SliceFrom(Trim(lines[i]), 2)

(***************************************************************************)
(* Claims about the split of the content region.                           *)
(***************************************************************************)
\* whether, in the 'default' and 'image-first' layouts of the feed-text
\* template, the content region is split by the image scale: the text is
\* (100 - imageScale)% high and the one illustration imageScale% high plus
\* the pixels given, or the text 100% high and no illustration rendered
ScaleSplitsRegion(pixels) ==
    (/\ style = "TWITTER"
     /\ resolved.contentLayout \in {Some("default"), Some("image-first")}) =>
        LET texts == KindsAt(tree, "text")
            images == IllustrationsOf(tree)
        IN /\ Cardinality(texts) = 1
           /\ IF slide.showImage
              THEN (/\ IsDefined(slide.imageScale)
                    /\ Value(slide.imageScale) \in 10..90) =>
                       /\ \A i \in texts :
                              tree[i].height
                                  = Some(100 - Value(slide.imageScale))
                       /\ Cardinality(images) = 1
                       /\ \A i \in images :
                              /\ tree[i].height = slide.imageScale
                              /\ tree[i].offset = pixels
              ELSE /\ \A i \in texts : tree[i].height = Some(100)
                   /\ images = {}

C26_TextColorOnlyOverBackground ==
    /\ ~ShowBackground(slide) =>
           \A v \in CompositionValues("backgroundTextColor") :
               LET other == [slide EXCEPT !["backgroundTextColor"] = v]
               IN /\ TextColors(style, other, theme, accentColor) = colors
                  /\ SlideComponent(style, other, content, theme,
                                    showSlideNumbers, forExport,
                                    layoutSettings, fontStyle, fontScale)
                         = tree
    /\ (ShowBackground(slide) /\ Truthy(slide.backgroundTextColor)) =>
           /\ colors.heading = Value(slide.backgroundTextColor)
           /\ colors.body = Value(slide.backgroundTextColor)
           /\ colors.bullet = Value(slide.backgroundTextColor)
           /\ colors.number = Value(slide.backgroundTextColor)

(***************************************************************************)
(* Claims about the onboarding.                                            *)
(***************************************************************************)
\* C22: handleFormatSelect called with a style other than TWITTER,
\* STORYTELLER and LESSON (APPLE_NOTES) leaves the selected style and the
\* step unchanged, and the workspace is never entered with a style outside
\* those three.
C22_UnsupportedFormatIgnored ==
    [][/\ (\E s \in CarouselStyle \ {"TWITTER", "STORYTELLER", "LESSON"} :
               last' = <<"handleFormatSelect", s>>)
           => (style' = style /\ step' = step)
       /\ step' = "WORKSPACE"
           => style' \in {"TWITTER", "STORYTELLER", "LESSON"}]_vars

\* C22 witness: LESSON had been selected, the user went back and
\* handleFormatSelect has just been called with APPLE_NOTES.
C22_Witness ==
    /\ last = <<"handleFormatSelect", "APPLE_NOTES">>
    /\ alerted = "Coming soon!"
    /\ style = "LESSON"
    /\ step = "FORMAT_SELECT"

\* the forward transitions of the onboarding
ForwardSteps ==
    {<<"FORMAT_SELECT", "ASPECT_RATIO_SELECT">>,
     <<"ASPECT_RATIO_SELECT", "PROFILE_INPUT">>,
     <<"PROFILE_INPUT", "METHOD_SELECT">>,
     <<"METHOD_SELECT", "AI_INPUT">>,
     <<"METHOD_SELECT", "WORKSPACE">>,
     <<"AI_INPUT", "WORKSPACE">>}

\* every step's immediate predecessor, the one Back returns to
BackSteps ==
    {<<"ASPECT_RATIO_SELECT", "FORMAT_SELECT">>,
     <<"PROFILE_INPUT", "ASPECT_RATIO_SELECT">>,
     <<"METHOD_SELECT", "PROFILE_INPUT">>,
     <<"AI_INPUT", "METHOD_SELECT">>,
     <<"WORKSPACE", "METHOD_SELECT">>}

\* C27: the onboarding step moves only along FORMAT_SELECT ->
\* ASPECT_RATIO_SELECT -> PROFILE_INPUT -> METHOD_SELECT -> AI_INPUT or
\* WORKSPACE, and AI_INPUT -> WORKSPACE; Back returns to the immediate
\* predecessor (AI_INPUT and WORKSPACE both to METHOD_SELECT); the workspace
\* is reached only directly after the manual creation from METHOD_SELECT or
\* a successful AI generation from AI_INPUT.
C27_StepFlow ==
    [][/\ step' # step =>
              IF last' = <<"back", step>>
              THEN <<step, step'>> \in BackSteps
              ELSE <<step, step'>> \in ForwardSteps
       /\ last' = <<"back", step>> => step' # step
       /\ (step' = "WORKSPACE" /\ step # "WORKSPACE") =>
              \/ step = "METHOD_SELECT" /\ last' = <<"handleManualCreate">>
              \/ /\ step = "AI_INPUT"
                 /\ last' = <<"handleAiGenerate", "resolved">>]_vars

\* C27 witness: the workspace was entered by a successful AI generation and
\* its Back has just been clicked.
C27_Witness ==
    /\ entered = "ai"
    /\ last = <<"back", "WORKSPACE">>
    /\ step = "METHOD_SELECT"

C29_DocumentClearedInWorkspace ==
    (step = "WORKSPACE" /\ entered = "ai") => uploadedDocument = Null

(***************************************************************************)
(* Claims about the Instagram scraper.                                     *)
(***************************************************************************)
\* what holds of the polling in every state of a call
PollingOutcome ==
    /\ attempts <= 60
    /\ outcome.kind = "data" =>
           /\ runStatus = Some("SUCCEEDED")
           /\ items \in {"[post]", "[post, post]"}
    /\ (scrapePc = "done" /\ runStatus = Some("FAILED")) =>
           /\ outcome.kind = "error"
           /\ outcome.message = "Instagram scraping failed. The post may be private or unavailable."
    /\ (/\ scrapePc = "done"
        /\ attempts = 60
        /\ runStatus \notin {Some("SUCCEEDED"), Some("FAILED")}) =>
           /\ outcome.kind = "error"
           /\ outcome.message = "Instagram scraping timed out. Please try again."
    /\ (/\ outcome.kind = "error"
        /\ outcome.message = "Instagram scraping timed out. Please try again.") =>
           attempts = 60

\* C30: scrapeInstagramPost makes at most 60 status polls and then
\* terminates, every request returning; it returns data only if the status
\* is SUCCEEDED and the dataset has at least one item; the status FAILED
\* gives the scraping-failed error and any other status after 60 polls the
\* timed-out error.
C30_PollingBounded == []PollingOutcome /\ <>(scrapePc = "done")

\* C30 witness: the run was still RUNNING at the 60th poll and the call has
\* ended with the timed-out error.
C30_Witness ==
    /\ scrapePc = "done"
    /\ attempts = 60
    /\ runStatus = Some("RUNNING")
    /\ outcome.message = "Instagram scraping timed out. Please try again."

(***************************************************************************)
(* Claims about the export.                                                *)
(***************************************************************************)
\* C21: no capture is made before every image the slide's visual tree
\* references has reached the loaded or the error state.
C21_NoCaptureBeforeImagesSettle ==
    [][(exportPhase' = "captured" /\ exportPhase # "captured") =>
           \A i \in ImageIds :
               (\E k \in DOMAIN tree :
                    \/ i = "avatar" /\ "avatar" \in tree[k].parts
                    \/ /\ i = "illustration"
                       /\ tree[k].kind = "illustration"
                       /\ ~tree[k].placeholder
                    \/ i = "background" /\ tree[k].kind = "background")
               => imageState[i] \in {"loaded", "error"}]_vars

\* C21 witness: a slide with an illustration and a background image has been
\* captured after its background image failed to load and the two other
\* images loaded.
C21_Witness ==
    /\ exportPhase = "captured"
    /\ imageState["background"] = "error"
    /\ imageState["illustration"] = "loaded"
    /\ imageState["avatar"] = "loaded"
====
